---- MODULE Spec2Model ----
(***************************************************************************)
(* lan-tunnel: the Proxy (src/src/server.mjs), the tunnel handshake        *)
(* (src/src/encryption.mjs), the socket helpers (src/src/shared.mjs) and   *)
(* the Client (src/unnamed/part_003, lines 1-226).                         *)
(*                                                                         *)
(* Every handler of the source is an operator that maps the state of its   *)
(* process (a record) to the state after the handler has run to the end,   *)
(* calls included.  An exception that escapes a listener is not caught     *)
(* anywhere in the source, so it ends the process: the record's `crashed`  *)
(* field is set and no handler runs afterwards.                            *)
(*                                                                         *)
(* onTunnelOpened and the Client's remote 'connect' listener use `await`;  *)
(* they are modelled as the asynchronous functions their bodies need.      *)
(***************************************************************************)
EXTENDS Integers, Sequences, FiniteSets, TLC

(***************************************************************************)
(* Bounds of the model.                                                    *)
(***************************************************************************)
MaxSockets == 3        \* sockets the Proxy accepts in one run
MaxSecretLen == 2      \* characters of a secret
MaxTunnels == 4
tunnelSocketsPoolSize == 2   \* Client: this.tunnelSocketsPoolSize
MaxRetries == 3     \* calls of scheduleReconnect in a row that are examined
MaxBytes == 2       \* bytes the public client writes, and bytes the app writes
ByteValues == 4     \* a byte is one of 0 .. ByteValues - 1
MaxFailures == 2    \* times a listener of the Proxy fails

VARIABLES
    secret,        \* Proxy: this.secret (a string; <<>> is "not configured")
    tunnelPool,    \* Proxy: this.tunnelPool
    requestQueue,  \* Proxy: this.requestQueue
    sockets,       \* Proxy: the net.Socket objects it has accepted
    handshake,     \* Proxy: verifyReceiverTunnel's promise, per tunnel socket
    piped,         \* Proxy: the calls of pipeSockets, in order
    crashed,       \* Proxy: an exception escaped a listener
    logged,        \* Proxy: the messages about the app it has logged, in order
    wire,          \* the bytes on their way to each tunnel socket
    clientSecret,  \* Client: this.secret, the secret its Tunnels send
    openTunnels,   \* Client: this.openTunnels
    tunnels,       \* Client: the Tunnel objects it has created
    fillTunnelsTimeout,  \* Client: this.fillTunnelsTimeout is a pending timer
    timeout,       \* Client: the pending timers of scheduleReconnect; this.timeout is the last
    clientCrashed, \* Client: an exception escaped a listener
    options,       \* Proxy: the options given to new ProxyServer(options)
    proxyServer,   \* Proxy: this.proxy, the public listener
    tunnelServer,  \* Proxy: this.tunnel, the tunnel listener
    thrown,        \* Proxy: the error the constructor has thrown
    ticks,         \* Proxy: the events its servers emit on the next ticks, in order
    failures,      \* the failures of listen and accept so far
    clientOptions, \* Client: the options given to new ProxyClient(options)
    clientThrown,  \* Client: the error the constructor has thrown
    relay          \* one request and one tunnel: the bytes, buffers and ciphers on their way

proxyVars == <<secret, tunnelPool, requestQueue, sockets, handshake, piped, crashed, logged, wire>>
clientVars == <<openTunnels, tunnels, fillTunnelsTimeout, timeout, clientCrashed>>
listenerVars == <<options, proxyServer, tunnelServer, thrown, ticks, failures>>
clientOptionVars == <<clientOptions, clientThrown>>
vars == <<secret, tunnelPool, requestQueue, sockets, handshake, piped, crashed, logged, wire, clientSecret,
          openTunnels, tunnels, fillTunnelsTimeout, timeout, clientCrashed,
          options, proxyServer, tunnelServer, thrown, ticks, failures,
          clientOptions, clientThrown, relay>>

(***************************************************************************)
(* Strings and bytes.  A string is a sequence of characters; character 1   *)
(* is one byte in UTF-8 (byte 1), character 2 is two bytes (bytes 2, 3).   *)
(* Character 0 is U+FFFD, what decoding gives for a broken sequence.       *)
(***************************************************************************)
Chars == {1, 2}

RECURSIVE StringsUpTo(_)
StringsUpTo(n) ==
    IF n = 0 THEN {<<>>}
    ELSE LET shorter == StringsUpTo(n - 1)
         IN shorter \cup {Append(s, c) : s \in {x \in shorter : Len(x) = n - 1}, c \in Chars}

Strings == StringsUpTo(MaxSecretLen)

\* socket.write(string): the string's UTF-8 bytes.
RECURSIVE Utf8Encode(_)
Utf8Encode(str) ==
    IF str = <<>> THEN <<>>
    ELSE (IF Head(str) = 1 THEN <<1>> ELSE <<2, 3>>) \o Utf8Encode(Tail(str))

\* buffer.toString(): UTF-8 decoding, U+FFFD for a byte that starts no
\* complete character.
RECURSIVE Utf8Decode(_)
Utf8Decode(bytes) ==
    IF bytes = <<>> THEN <<>>
    ELSE IF Head(bytes) = 1 THEN <<1>> \o Utf8Decode(Tail(bytes))
    ELSE IF Head(bytes) = 2 /\ Len(bytes) >= 2 /\ bytes[2] = 3
         THEN <<2>> \o Utf8Decode(Tail(Tail(bytes)))
    ELSE <<0>> \o Utf8Decode(Tail(bytes))

(***************************************************************************)
(* src/src/encryption.mjs: the status bytes of the handshake.              *)
(***************************************************************************)
CHALLENGE == [EMPTY |-> 0, VERIFIED |-> 1, INCORRECT |-> 2]

(***************************************************************************)
(* net.Socket, as far as the source uses it.                               *)
(***************************************************************************)
SocketIds == 1 .. MaxSockets
SocketEvents == {"error", "end", "timeout", "close"}

NewSocket ==
    [type               |-> "free",       \* socket[TYPE]
     connecting         |-> FALSE,        \* net.connect has not finished
     writableEnded      |-> FALSE,        \* end() has been called
     destroyed          |-> FALSE,
     closed             |-> FALSE,
     DESTRUCTION_TIMEOUT |-> FALSE,       \* socket[DESTRUCTION_TIMEOUT] is set
     timeout            |-> "undefined",  \* socket.timeout
     keepAlive          |-> FALSE,
     fin                |-> FALSE,        \* the peer's FIN has arrived
     emitted            |-> {}]           \* terminal events emitted so far

\* readable.read(n) with n > 0: n bytes when that many are buffered, the rest
\* of the stream when it has ended, else null.
SocketRead(buffer, n, ended) ==
    IF Len(buffer) >= n
    THEN [null |-> FALSE, data |-> SubSeq(buffer, 1, n)]
    ELSE IF ended /\ Len(buffer) > 0
    THEN [null |-> FALSE, data |-> buffer]
    ELSE [null |-> TRUE, data |-> <<>>]

(***************************************************************************)
(* src/src/shared.mjs                                                      *)
(***************************************************************************)
RemoveAt(arr, i) == SubSeq(arr, 1, i - 1) \o SubSeq(arr, i + 1, Len(arr))

IndexOf(arr, item) ==
    IF \E i \in 1 .. Len(arr) : arr[i] = item
    THEN CHOOSE i \in 1 .. Len(arr) : arr[i] = item /\ \A j \in 1 .. (i - 1) : arr[j] # item
    ELSE 0

removeFromArray(arr, item) ==
    LET index == IndexOf(arr, item)
    IN IF index # 0 THEN RemoveAt(arr, index) ELSE arr

\* A setupLongLivedSocket that leaves the timeout as it is.
setupLongLivedSocket_KeepAliveOnly(socket) ==
    [socket EXCEPT !.keepAlive = TRUE]

setupLongLivedSocket(socket) ==
    [socket EXCEPT !.timeout = "0", !.keepAlive = TRUE]

\* killSocket on a socket object.
killSocket(socket) ==
    IF socket.closed THEN socket
    ELSE LET ended == [socket EXCEPT !.writableEnded = TRUE]
         IN IF ended.destroyed THEN ended
            ELSE IF ended.DESTRUCTION_TIMEOUT THEN ended
            ELSE [ended EXCEPT !.DESTRUCTION_TIMEOUT = TRUE]

(***************************************************************************)
(* Options (src/src/shared.mjs, lines 113-175).  Timeouts are kept as the  *)
(* text of their value, beside "undefined".                                *)
(***************************************************************************)
challengeTimeout == "4000"
requestTimeout == "5000"

(***************************************************************************)
(* The Proxy (src/src/server.mjs).                                         *)
(***************************************************************************)
NewHandshake ==
    [state    |-> "none",    \* none, listening, writing, resolved, rejected
     buffer   |-> <<>>,      \* bytes received and not read
     written  |-> <<>>,      \* status bytes passed to socket.write
     callback |-> "none"]    \* the callback passed to socket.write

ProxyState ==
    [tunnelPool   |-> tunnelPool,
     requestQueue |-> requestQueue,
     sockets      |-> sockets,
     handshake    |-> handshake,
     piped        |-> piped,
     crashed      |-> crashed,
     logged       |-> logged]

ProxyBecomes(st) ==
    /\ tunnelPool' = st.tunnelPool
    /\ requestQueue' = st.requestQueue
    /\ sockets' = st.sockets
    /\ handshake' = st.handshake
    /\ piped' = st.piped
    /\ crashed' = st.crashed
    /\ logged' = st.logged

\* An exception leaves a listener: nothing catches it.
Throw(st) == [st EXCEPT !.crashed = TRUE]

\* What a listener registered as socket.once(event, listener) is called with:
\* the arguments of the event, which is an Error for 'error', hadError for
\* 'close' and nothing for 'end' and 'timeout'.
ListenerArg(socket, event) ==
    CASE event = "error" -> [kind |-> "Error", id |-> 0]
      [] event = "close" -> [kind |-> "boolean", id |-> 0]
      [] OTHER           -> [kind |-> "undefined", id |-> 0]

\* killSocket(x) throws unless x is a socket: undefined has no property
\* `closed`, and an Error or a boolean has no method `end`.
killSocketThrows(arg) == arg.kind # "socket"

Requests(st) == {st.piped[i][1] : i \in 1 .. Len(st.piped)}
Tunnels(st) == {st.piped[i][2] : i \in 1 .. Len(st.piped)}

\* The socket that pipeSockets has coupled with s.
Partner(st, s) ==
    LET i == CHOOSE j \in 1 .. Len(st.piped) : s \in {st.piped[j][1], st.piped[j][2]}
    IN IF st.piped[i][1] = s THEN st.piped[i][2] ELSE st.piped[i][1]

IsPiped(st, s) == \E j \in 1 .. Len(st.piped) : s \in {st.piped[j][1], st.piped[j][2]}

pipeSockets(st, request, tunnel) ==
    [st EXCEPT !.piped = Append(@, <<request, tunnel>>)]

\* Mutants of onProxyRequest: it queues the request whatever the pool holds;
\* it pairs with the head of the pool and leaves it there; it takes the
\* youngest idle tunnel.
onProxyRequest_AlwaysQueues(st, request) ==
    [st EXCEPT !.sockets[request].type = "request",
               !.sockets[request].timeout = requestTimeout,
               !.requestQueue = Append(@, request)]

onProxyRequest_NoShift(st, request) ==
    LET s1 == [st EXCEPT !.sockets[request].type = "request",
                         !.sockets[request].timeout = requestTimeout]
    IN IF Len(s1.tunnelPool) > 0
       THEN pipeSockets(s1, request, Head(s1.tunnelPool))
       ELSE [s1 EXCEPT !.requestQueue = Append(@, request)]

onProxyRequest_Pop(st, request) ==
    LET s1 == [st EXCEPT !.sockets[request].type = "request",
                         !.sockets[request].timeout = requestTimeout]
    IN IF Len(s1.tunnelPool) > 0
       THEN [pipeSockets(s1, request, s1.tunnelPool[Len(s1.tunnelPool)])
                 EXCEPT !.tunnelPool = SubSeq(@, 1, Len(@) - 1)]
       ELSE [s1 EXCEPT !.requestQueue = Append(@, request)]

onProxyRequest(st, request) ==
    LET s1 == [st EXCEPT !.sockets[request].type = "request"]
        s2 == IF Len(s1.tunnelPool) > 0
              THEN [pipeSockets(s1, request, Head(s1.tunnelPool))
                        EXCEPT !.tunnelPool = Tail(@)]
              ELSE [s1 EXCEPT !.requestQueue = Append(@, request)]
    IN IF requestTimeout # "undefined" /\ s2.sockets[request].timeout = "undefined"
       THEN [s2 EXCEPT !.sockets[request].timeout = requestTimeout]
       ELSE s2

\* log(INFO, ...) with a message about the app.
log(st, message) == [st EXCEPT !.logged = Append(@, message)]

\* acceptTunnel's `if (this.tunnelPool.length === 0) log(...)`.
logAppConnected(st) ==
    IF Len(st.tunnelPool) = 0 THEN log(st, "App connected") ELSE st

\* Mutant of acceptTunnel: it serves the head of requestQueue and leaves it
\* queued.
acceptTunnel_NoShift(st, tunnel) ==
    LET s1 == logAppConnected([st EXCEPT !.sockets[tunnel] = setupLongLivedSocket(@)])
    IN IF Len(s1.requestQueue) > 0
       THEN pipeSockets(s1, Head(s1.requestQueue), tunnel)
       ELSE [s1 EXCEPT !.tunnelPool = Append(@, tunnel)]

\* Mutant of acceptTunnel: it serves the youngest waiting request.
acceptTunnel_Pop(st, tunnel) ==
    LET s1 == logAppConnected([st EXCEPT !.sockets[tunnel] = setupLongLivedSocket(@)])
    IN IF Len(s1.requestQueue) > 0
       THEN [pipeSockets(s1, s1.requestQueue[Len(s1.requestQueue)], tunnel)
                 EXCEPT !.requestQueue = SubSeq(@, 1, Len(@) - 1)]
       ELSE [s1 EXCEPT !.tunnelPool = Append(@, tunnel)]

acceptTunnel(st, tunnel) ==
    LET s1 == logAppConnected([st EXCEPT !.sockets[tunnel] = setupLongLivedSocket(@)])
    IN IF Len(s1.requestQueue) > 0
       THEN [pipeSockets(s1, Head(s1.requestQueue), tunnel)
                 EXCEPT !.requestQueue = Tail(@)]
       ELSE [s1 EXCEPT !.tunnelPool = Append(@, tunnel)]

\* verifyReceiverTunnel up to its return: the timeout and the two listeners.
verifyReceiverTunnel(st, socket) ==
    [st EXCEPT !.sockets[socket].timeout = challengeTimeout,
               !.handshake[socket].state = "listening"]

\* Mutant of onReadable: with nothing to read it rejects without a write.
onReadable_SilentReject(st, socket) ==
    LET h == st.handshake[socket]
        challenge == SocketRead(h.buffer, Len(secret), st.sockets[socket].fin)
        write(byte, cb) ==
            [st EXCEPT !.handshake[socket] =
                [h EXCEPT !.state = "writing", !.written = Append(@, byte), !.callback = cb]]
    IN IF challenge.null
       THEN [st EXCEPT !.handshake[socket].state = "writing",
                       !.handshake[socket].callback = "reject"]
       ELSE IF Utf8Decode(challenge.data) # secret
       THEN write(CHALLENGE.INCORRECT, "reject")
       ELSE write(CHALLENGE.VERIFIED, "resolve")

\* Mutant of onReadable: with nothing to read it answers INCORRECT.
onReadable_EmptyAsIncorrect(st, socket) ==
    LET h == st.handshake[socket]
        challenge == SocketRead(h.buffer, Len(secret), st.sockets[socket].fin)
        write(byte, cb) ==
            [st EXCEPT !.handshake[socket] =
                [h EXCEPT !.state = "writing", !.written = Append(@, byte), !.callback = cb]]
    IN IF challenge.null \/ Utf8Decode(challenge.data) # secret
       THEN write(CHALLENGE.INCORRECT, "reject")
       ELSE write(CHALLENGE.VERIFIED, "resolve")

\* verifyReceiverTunnel's 'readable' listener.
onReadable(st, socket) ==
    LET h == st.handshake[socket]
        ended == st.sockets[socket].fin
        challenge == SocketRead(h.buffer, Len(secret), ended)
        rest == SubSeq(h.buffer, Len(challenge.data) + 1, Len(h.buffer))
        write(byte, cb) ==
            [st EXCEPT !.handshake[socket] =
                [h EXCEPT !.state = "writing", !.buffer = rest,
                          !.written = Append(@, byte), !.callback = cb]]
    IN IF challenge.null
       THEN write(CHALLENGE.EMPTY, "reject")
       ELSE IF Utf8Decode(challenge.data) # secret
       THEN write(CHALLENGE.INCORRECT, "reject")
       ELSE write(CHALLENGE.VERIFIED, "resolve")

\* onTunnelOpened after its first await: acceptTunnel, or the catch block.
onTunnelOpenedResume(st, tunnel, fulfilled) ==
    IF fulfilled
    THEN acceptTunnel([st EXCEPT !.handshake[tunnel].state = "resolved"], tunnel)
    ELSE [st EXCEPT !.handshake[tunnel].state = "rejected",
                    !.sockets[tunnel].writableEnded = TRUE]

\* verifyReceiverTunnel's 'timeout' listener.
onTimeout(st, socket) == onTunnelOpenedResume(st, socket, FALSE)

\* Mutant of onTunnelOpened: it accepts the tunnel without the handshake.
onTunnelOpened_NoHandshake(st, tunnel) ==
    acceptTunnel([st EXCEPT !.sockets[tunnel].type = "tunnel"], tunnel)

onTunnelOpened(st, tunnel) ==
    LET s1 == [st EXCEPT !.sockets[tunnel].type = "tunnel"]
    IN IF secret # <<>>
       THEN verifyReceiverTunnel(s1, tunnel)
       ELSE acceptTunnel(s1, tunnel)

onRequestClosed(st, request) ==
    IF killSocketThrows(request) THEN Throw(st)
    ELSE [st EXCEPT !.sockets[request.id] = killSocket(@),
                    !.requestQueue = removeFromArray(@, request.id)]

onTunnelClosed(st, tunnel) ==
    IF killSocketThrows(tunnel) THEN Throw(st)
    ELSE LET prevLength == Len(st.tunnelPool)
             s1 == [st EXCEPT !.sockets[tunnel.id] = killSocket(@),
                              !.tunnelPool = removeFromArray(@, tunnel.id)]
         IN IF Len(s1.tunnelPool) = 0 /\ prevLength > 0
            THEN log(s1, "App disconnected")
            ELSE s1

\* The listeners mutuallyAssuredSocketDestruction put on socket a.
mutuallyAssuredSocketDestruction(st, a) ==
    [st EXCEPT !.sockets[Partner(st, a)] = killSocket(@)]

\* socket.emit(event): the listeners in the order they were registered; the
\* first exception ends the emit.  Before them, at 'end', the socket (not
\* allowHalfOpen) ends its own writable side.
EmitSocketEvent(st, socket, event) ==
    LET arg == ListenerArg(socket, event)
        s0 == [st EXCEPT !.sockets[socket].emitted = @ \cup {event},
                         !.sockets[socket].closed = (@ \/ event = "close"),
                         !.sockets[socket].destroyed = (@ \/ event \in {"error", "close"}),
                         !.sockets[socket].writableEnded = (@ \/ event = "end")]
        s1 == IF s0.sockets[socket].type = "request"
              THEN onRequestClosed(s0, arg)
              ELSE onTunnelClosed(s0, arg)
        s2 == IF ~s1.crashed /\ event = "timeout"
                 /\ s1.handshake[socket].state = "listening"
              THEN onTimeout(s1, socket)
              ELSE s1
    IN IF ~s2.crashed /\ event \in {"end", "close"} /\ IsPiped(s2, socket)
       THEN mutuallyAssuredSocketDestruction(s2, socket)
       ELSE s2

(***************************************************************************)
(* The Proxy's steps: what the event loop can run next.                    *)
(***************************************************************************)
IsFree(s) == sockets[s].type = "free"
NextSocket(s) == IsFree(s) /\ \A o \in SocketIds : o < s => ~IsFree(o)

\* The public listener accepts a connection.
ProxyRequest ==
    /\ ~crashed
    /\ \E s \in SocketIds :
        /\ NextSocket(s)
        /\ ProxyBecomes(onProxyRequest(ProxyState, s))
    /\ UNCHANGED <<listenerVars, clientOptionVars, relay, clientVars, secret, clientSecret, wire>>

\* The tunnel listener accepts a connection; its remote end is a Tunnel of
\* the Client, which writes its secret as soon as it is connected.
TunnelOpened ==
    /\ ~crashed
    /\ \E s \in SocketIds :
        /\ NextSocket(s)
        /\ ProxyBecomes(onTunnelOpened(ProxyState, s))
        /\ wire' = [wire EXCEPT ![s] = Utf8Encode(clientSecret)]
    /\ UNCHANGED <<listenerVars, clientOptionVars, relay, clientVars, secret, clientSecret>>

\* The first k bytes of a tunnel's stream arrive in one chunk: they are
\* buffered and 'readable' is emitted.  No handler of the Proxy looks at the
\* stream after that listener (it is piped, or left unread), so the model
\* follows the stream no further.
TunnelData ==
    /\ ~crashed
    /\ \E t \in SocketIds, k \in 1 .. (2 * MaxSecretLen) :
        /\ handshake[t].state = "listening"
        /\ ~sockets[t].destroyed
        /\ k <= Len(wire[t])
        /\ LET st == onReadable([ProxyState EXCEPT !.handshake[t].buffer =
                                    SubSeq(wire[t], 1, k)], t)
           IN ProxyBecomes([st EXCEPT !.handshake[t].buffer = <<>>])
        /\ wire' = [wire EXCEPT ![t] = <<>>]
    /\ UNCHANGED <<listenerVars, clientOptionVars, relay, clientVars, secret, clientSecret>>

\* The write of the status byte completes and its callback runs.
WriteCallback ==
    /\ ~crashed
    /\ \E t \in SocketIds :
        /\ handshake[t].state = "writing"
        /\ ProxyBecomes(onTunnelOpenedResume(ProxyState, t, handshake[t].callback = "resolve"))
    /\ UNCHANGED <<listenerVars, clientOptionVars, relay, clientVars, secret, clientSecret, wire>>

\* The events the network can cause on an accepted socket.
CanEmit(s, event) ==
    /\ sockets[s].type # "free"
    /\ ~sockets[s].closed
    /\ event \notin sockets[s].emitted
    /\ CASE event = "error" -> ~sockets[s].destroyed
         [] event = "end"   -> /\ ~sockets[s].destroyed
                               /\ handshake[s].state = "listening" => wire[s] = <<>>
         [] event = "close" -> sockets[s].destroyed \/ "end" \in sockets[s].emitted
         [] OTHER           -> FALSE

\* The peer's FIN: 'readable' for a listener that still waits, then 'end'
\* once nothing is left to read.
ReceiveEnd(st, socket) ==
    LET s1 == [st EXCEPT !.sockets[socket].fin = TRUE]
        s2 == IF s1.handshake[socket].state = "listening"
              THEN onReadable(s1, socket) ELSE s1
    IN IF s2.handshake[socket].buffer = <<>> \/ IsPiped(s2, socket)
       THEN EmitSocketEvent(s2, socket, "end")
       ELSE s2

SocketEvent ==
    /\ ~crashed
    /\ \E s \in SocketIds, event \in SocketEvents :
        /\ CanEmit(s, event)
        /\ ProxyBecomes(IF event = "end"
                        THEN ReceiveEnd(ProxyState, s)
                        ELSE EmitSocketEvent(ProxyState, s, event))
    /\ UNCHANGED <<listenerVars, clientOptionVars, relay, clientVars, secret, clientSecret, wire>>

\* A timer fires: a socket's idle timeout, or killSocket's 500 ms timer.
SocketTimer ==
    /\ ~crashed
    /\ \E s \in SocketIds, timer \in {"idle", "destruction"} :
        /\ sockets[s].type # "free"
        /\ ~sockets[s].destroyed
        /\ IF timer = "idle"
           THEN /\ sockets[s].timeout \notin {"undefined", "0"}
                /\ "timeout" \notin sockets[s].emitted
                /\ ProxyBecomes(EmitSocketEvent(ProxyState, s, "timeout"))
           ELSE /\ sockets[s].DESTRUCTION_TIMEOUT
                /\ ProxyBecomes([ProxyState EXCEPT !.sockets[s].destroyed = TRUE])
    /\ UNCHANGED <<listenerVars, clientOptionVars, relay, clientVars, secret, clientSecret, wire>>

(***************************************************************************)
(* The Client (src/unnamed/part_003, lines 1-226).                         *)
(***************************************************************************)
TunnelIds == 1 .. MaxTunnels

NewTunnel ==
    [created  |-> FALSE,
     remote   |-> NewSocket,
     local    |-> NewSocket,
     verified |-> FALSE,
     challenge |-> "none",    \* verifySenderTunnel: none, waiting, settled
     cleanup  |-> FALSE,      \* createTunnel's once('close') listener is registered
     awaited  |-> FALSE,      \* tryOpenTunnels awaits the Tunnel's getPromise()
     piping   |-> FALSE,      \* 'connect' was emitted and pipeSockets has run
     connects |-> 0]          \* the times 'connect' was emitted

ClientState ==
    [openTunnels        |-> openTunnels,
     tunnels            |-> tunnels,
     fillTunnelsTimeout |-> fillTunnelsTimeout,
     timeout            |-> timeout,
     crashed            |-> clientCrashed,
     overflow           |-> FALSE]     \* more Tunnels were asked for than MaxTunnels

\* A Tunnel that has left openTunnels is referenced by nothing but its own
\* sockets; both are ended, so it is never connected again, and their
\* listeners only call close again, which then changes nothing outside the
\* Tunnel.  The one listener that still reaches further is the 'readable'
\* listener of a handshake that waits on a remote socket not yet destroyed.
\* The model follows such a Tunnel's remote socket until then, and nothing
\* else of a Tunnel that has left openTunnels.
Unreachable(tunnel) ==
    /\ tunnel.created
    /\ ~tunnel.cleanup
    /\ ~(tunnel.challenge = "waiting" /\ ~tunnel.remote.destroyed)

Collect(ts) ==
    [id \in TunnelIds |->
        IF Unreachable(ts[id]) THEN NewTunnel
        ELSE IF ts[id].created /\ ~ts[id].cleanup THEN [ts[id] EXCEPT !.local = NewSocket]
        ELSE ts[id]]

\* Tunnel objects have no names in the source.  The model numbers them by
\* their place: the Tunnels of openTunnels in its order, then the others it
\* still follows.
Numbering(c) ==
    LET ts == Collect(c.tunnels)
        inPool == {c.openTunnels[i] : i \in 1 .. Len(c.openTunnels)}
        others == {id \in TunnelIds : ts[id].created /\ id \notin inPool}
        Nth(n) == CHOOSE id \in others : Cardinality({o \in others : o < id}) = n - 1
    IN c.openTunnels \o [n \in 1 .. Cardinality(others) |-> Nth(n)]

ClientBecomes(c) ==
    /\ ~c.overflow
    /\ LET ts == Collect(c.tunnels)
           numbering == Numbering(c)
       IN /\ openTunnels' = [i \in 1 .. Len(c.openTunnels) |-> i]
          /\ tunnels' = [id \in TunnelIds |->
                            IF id <= Len(numbering) THEN ts[numbering[id]] ELSE NewTunnel]
    /\ fillTunnelsTimeout' = c.fillTunnelsTimeout
    /\ timeout' = c.timeout
    /\ clientCrashed' = c.crashed

\* socket.readyState
readyState(socket) ==
    LET readable == ~socket.destroyed /\ "end" \notin socket.emitted
        writable == ~socket.destroyed /\ ~socket.writableEnded
    IN IF socket.connecting THEN "opening"
       ELSE IF readable /\ writable THEN "open"
       ELSE IF readable THEN "readOnly"
       ELSE IF writable THEN "writeOnly"
       ELSE "closed"

\* Tunnel: get connected()
connected(tunnel) ==
    /\ readyState(tunnel.remote) = "open"
    /\ readyState(tunnel.local) = "open"
    /\ ~tunnel.remote.writableEnded
    /\ ~tunnel.local.writableEnded
    /\ tunnel.verified

\* An onTunnelClose that does not coalesce: a close that finds the timer
\* pending runs the timer's decision at once.
onTunnelClose_Undebounced(c) ==
    IF ~c.fillTunnelsTimeout
    THEN [c EXCEPT !.fillTunnelsTimeout = TRUE]
    ELSE [c EXCEPT !.fillTunnelsTimeout = FALSE,
                   !.timeout = IF Len(c.openTunnels) = 0 /\ @ = 0 THEN 1 ELSE @]

\* ProxyClient.onTunnelClose
onTunnelClose(c) ==
    IF ~c.fillTunnelsTimeout THEN [c EXCEPT !.fillTunnelsTimeout = TRUE] ELSE c

\* ProxyClient.createTunnel, for the next Tunnel object.
createTunnel(c) ==
    IF \A id \in TunnelIds : c.tunnels[id].created
    THEN [c EXCEPT !.overflow = TRUE]
    ELSE LET id == CHOOSE i \in TunnelIds :
                     ~c.tunnels[i].created /\ \A j \in 1 .. (i - 1) : c.tunnels[j].created
         IN [c EXCEPT !.tunnels[id] =
                          [NewTunnel EXCEPT !.created = TRUE,
                                            !.remote.type = "remote",
                                            !.remote.connecting = TRUE,
                                            !.local.type = "local",
                                            !.local.connecting = TRUE,
                                            !.cleanup = TRUE],
                      !.openTunnels = Append(@, id)]

\* The while loop of fillTunnels.
RECURSIVE WhileBelow(_, _)
WhileBelow(c, size) ==
    IF ~c.overflow /\ Len(c.openTunnels) < size
    THEN WhileBelow(createTunnel(c), size)
    ELSE c

\* Mutant of fillTunnels: its comparisons are <=, one tunnel too many.
fillTunnels_OneMore(c) ==
    IF Len(c.openTunnels) <= tunnelSocketsPoolSize
    THEN WhileBelow(c, tunnelSocketsPoolSize + 1)
    ELSE c

\* ProxyClient.fillTunnels
fillTunnels(c) ==
    IF Len(c.openTunnels) < tunnelSocketsPoolSize
    THEN WhileBelow(c, tunnelSocketsPoolSize)
    ELSE c

\* Mutant of tryOpenTunnels: it fills the pool without awaiting the probe.
tryOpenTunnels_FillsAtOnce(c) ==
    LET c1 == createTunnel(c)
    IN IF c1.overflow THEN c1 ELSE fillTunnels(c1)

\* ProxyClient.tryOpenTunnels up to its await: the probe and its promise.
tryOpenTunnels(c) ==
    LET c1 == createTunnel(c)
        firstTunnel == c1.openTunnels[Len(c1.openTunnels)]
    IN IF c1.overflow THEN c1
       ELSE [c1 EXCEPT !.tunnels[firstTunnel].awaited = TRUE]

\* clearTimeout(this.timeout): the timer set last is cancelled, if it has
\* not fired.  Timers of one delay fire in the order they were set, so the
\* last one is pending whenever one is.
clearTimeout(pending) == IF pending > 0 THEN pending - 1 ELSE 0

\* setTimeout(this.tryOpenTunnels, this.reconnectTimeout)
setTimeout(pending) == pending + 1

\* Mutant of scheduleReconnect: the previous timer is not cleared.
scheduleReconnect_NoClear(c) == [c EXCEPT !.timeout = setTimeout(@)]

\* ProxyClient.scheduleReconnect
scheduleReconnect(c) == [c EXCEPT !.timeout = setTimeout(clearTimeout(@))]

\* Mutant of onTunnelCloseDebounced: it refills an empty pool at once.
onTunnelCloseDebounced_AlwaysFills(c) ==
    fillTunnels([c EXCEPT !.fillTunnelsTimeout = FALSE])

\* Mutant of onTunnelCloseDebounced: it waits for the retry whatever is left.
onTunnelCloseDebounced_AlwaysReconnects(c) ==
    scheduleReconnect([c EXCEPT !.fillTunnelsTimeout = FALSE])

\* An onTunnelCloseDebounced that fills what is left and schedules no retry.
onTunnelCloseDebounced_NeverReconnects(c) ==
    LET c1 == [c EXCEPT !.fillTunnelsTimeout = FALSE]
    IN IF Len(c1.openTunnels) = 0 THEN c1 ELSE fillTunnels(c1)

\* ProxyClient.onTunnelCloseDebounced
onTunnelCloseDebounced(c) ==
    LET c1 == [c EXCEPT !.fillTunnelsTimeout = FALSE]
    IN IF Len(c1.openTunnels) = 0
       THEN scheduleReconnect(c1)
       ELSE fillTunnels(c1)

\* Mutant of emitClose: createTunnel's listener is registered with on, and
\* runs at every 'close'.
emitClose_EveryClose(c, id) ==
    LET c2 == onTunnelClose([c EXCEPT !.openTunnels = removeFromArray(@, id)])
    IN IF c2.tunnels[id].awaited
       THEN [c2 EXCEPT !.tunnels[id].awaited = FALSE]
       ELSE c2

\* Tunnel.emit('close'): createTunnel's listener, then getPromise's, which
\* sends tryOpenTunnels into its catch block.
emitClose(c, id) ==
    LET c2 == IF c.tunnels[id].cleanup
              THEN onTunnelClose([c EXCEPT !.tunnels[id].cleanup = FALSE,
                                           !.openTunnels = removeFromArray(@, id)])
              ELSE c
    IN IF c2.tunnels[id].awaited
       THEN [c2 EXCEPT !.tunnels[id].awaited = FALSE]
       ELSE c2

\* A close that emits 'close' and kills neither socket.
close_EmitOnly(c, id) == emitClose(c, id)

\* A close that kills the remote socket and leaves the local one.
close_RemoteOnly(c, id) ==
    emitClose([c EXCEPT !.tunnels[id].remote = killSocket(@)], id)

\* Tunnel.close
close(c, id) ==
    emitClose([c EXCEPT !.tunnels[id].remote = killSocket(@),
                        !.tunnels[id].local = killSocket(@)], id)

\* Tunnel.pipeSockets
TunnelPipeSockets(c, id) ==
    [c EXCEPT !.tunnels[id].piping = TRUE, !.tunnels[id].connects = @ + 1]

\* A tryEmitConnect that emits 'connect' as soon as the remote socket is
\* accepted, whatever the local socket.
tryEmitConnect_RemoteOnly(c, id) ==
    IF readyState(c.tunnels[id].remote) = "open" /\ c.tunnels[id].verified
    THEN LET c1 == TunnelPipeSockets(c, id)
         IN IF c1.tunnels[id].awaited
            THEN fillTunnels([c1 EXCEPT !.tunnels[id].awaited = FALSE])
            ELSE c1
    ELSE c

\* Tunnel.tryEmitConnect: 'connect' runs pipeSockets, then getPromise's
\* listener, after which tryOpenTunnels goes on to fillTunnels.
tryEmitConnect(c, id) ==
    IF connected(c.tunnels[id])
    THEN LET c1 == TunnelPipeSockets(c, id)
         IN IF c1.tunnels[id].awaited
            THEN fillTunnels([c1 EXCEPT !.tunnels[id].awaited = FALSE])
            ELSE c1
    ELSE c

\* Tunnel.acceptTunnel
TunnelAcceptTunnel(c, id) ==
    tryEmitConnect([c EXCEPT !.tunnels[id].verified = TRUE,
                             !.tunnels[id].remote = setupLongLivedSocket(@),
                             !.tunnels[id].local = setupLongLivedSocket(@)], id)

\* verifySenderTunnel up to its return: the timeout, the write of the secret
\* and the two listeners.
verifySenderTunnel(c, id) ==
    [c EXCEPT !.tunnels[id].remote.timeout = challengeTimeout,
              !.tunnels[id].challenge = "waiting"]

\* verifySenderTunnel's check of the byte it has read.
senderAccepts(accepted) == accepted = CHALLENGE.VERIFIED

\* verifySenderTunnel's 'readable' listener; reply is what the stream holds,
\* <<>> when it has ended without a byte.  Destructuring the null that
\* read(1) then returns throws.  A rejection is caught by the 'connect'
\* listener of the remote socket, which closes the tunnel.
onSenderReadable(c, id, reply) ==
    LET c1 == [c EXCEPT !.tunnels[id].challenge = "settled"]
    IN IF reply = <<>>
       THEN [c1 EXCEPT !.crashed = TRUE]
       ELSE IF senderAccepts(reply[1])
       THEN TunnelAcceptTunnel(c1, id)
       ELSE close(c1, id)

\* verifySenderTunnel's 'timeout' listener.
onSenderTimeout(c, id) == close([c EXCEPT !.tunnels[id].challenge = "settled"], id)


\* The listeners mutuallyAssuredSocketDestruction put on one socket of a
\* Tunnel: they kill the other.
TunnelMutualDestruction(c, id, side) ==
    IF side = "remote"
    THEN [c EXCEPT !.tunnels[id].local = killSocket(@)]
    ELSE [c EXCEPT !.tunnels[id].remote = killSocket(@)]

SocketOf(c, id, side) == IF side = "remote" THEN c.tunnels[id].remote ELSE c.tunnels[id].local

SetSocket(c, id, side, socket) ==
    IF side = "remote"
    THEN [c EXCEPT !.tunnels[id].remote = socket]
    ELSE [c EXCEPT !.tunnels[id].local = socket]

\* socket.emit(event) on a socket of a Tunnel: this.close, then the listener
\* of a handshake that still waits, then those of pipeSockets.
EmitTunnelSocketEvent(c, id, side, event) ==
    LET old == SocketOf(c, id, side)
        c0 == SetSocket(c, id, side,
                        [old EXCEPT !.emitted = @ \cup {event},
                                    !.connecting = FALSE,
                                    !.closed = (@ \/ event = "close"),
                                    !.destroyed = (@ \/ event \in {"error", "close"}),
                                    !.writableEnded = (@ \/ event = "end")])
        c1 == close(c0, id)
        c2 == IF event = "timeout" /\ side = "remote" /\ c1.tunnels[id].challenge = "waiting"
              THEN onSenderTimeout(c1, id)
              ELSE c1
    IN IF event \in {"end", "close"} /\ c2.tunnels[id].piping
       THEN TunnelMutualDestruction(c2, id, side)
       ELSE c2


\* The 'connect' listener of the remote socket.  A Tunnel closed while it
\* was connecting has ended the socket: the write of the secret then fails
\* and the socket emits 'error'.
onRemoteConnect(c, id) ==
    IF clientSecret # <<>>
    THEN LET c1 == verifySenderTunnel(c, id)
         IN IF c.tunnels[id].remote.writableEnded
            THEN EmitTunnelSocketEvent(c1, id, "remote", "error")
            ELSE c1
    ELSE TunnelAcceptTunnel(c, id)

(***************************************************************************)
(* The Client's steps: what the event loop can run next.                   *)
(***************************************************************************)
Sides == {"remote", "local"}
Replies == {<<>>, <<CHALLENGE.EMPTY>>, <<CHALLENGE.VERIFIED>>, <<CHALLENGE.INCORRECT>>}

\* The connection to the Proxy's tunnel port is established.
RemoteConnect ==
    /\ ~clientCrashed
    /\ \E id \in TunnelIds :
        /\ tunnels[id].created
        /\ tunnels[id].remote.connecting
        /\ ~tunnels[id].remote.destroyed
        /\ ClientBecomes(onRemoteConnect(
               [ClientState EXCEPT !.tunnels[id].remote.connecting = FALSE], id))
    /\ UNCHANGED <<listenerVars, clientOptionVars, relay, proxyVars, clientSecret>>

\* The connection to the app is established.
LocalConnect ==
    /\ ~clientCrashed
    /\ \E id \in TunnelIds :
        /\ tunnels[id].created
        /\ tunnels[id].local.connecting
        /\ ~tunnels[id].local.destroyed
        /\ ClientBecomes(tryEmitConnect(
               [ClientState EXCEPT !.tunnels[id].local.connecting = FALSE], id))
    /\ UNCHANGED <<listenerVars, clientOptionVars, relay, proxyVars, clientSecret>>

\* 'readable' on the remote socket of a Tunnel that waits for the status
\* byte: the Proxy's reply has arrived, or the end of the stream.
ProxyReply ==
    /\ ~clientCrashed
    /\ \E id \in TunnelIds, reply \in Replies :
        /\ tunnels[id].challenge = "waiting"
        /\ ~tunnels[id].remote.destroyed
        /\ ClientBecomes(onSenderReadable(ClientState, id, reply))
    /\ UNCHANGED <<listenerVars, clientOptionVars, relay, proxyVars, clientSecret>>

\* The events the network can cause on a socket of a Tunnel.
CanEmitTunnel(id, side, event) ==
    LET socket == SocketOf(ClientState, id, side)
    IN /\ socket.type # "free"
       /\ ~socket.closed
       /\ event \notin socket.emitted
       /\ CASE event = "error" -> ~socket.destroyed
            [] event = "end"   -> /\ ~socket.destroyed
                                  /\ ~socket.connecting
                                  /\ side = "remote" => tunnels[id].challenge # "waiting"
            [] event = "close" -> socket.destroyed \/ "end" \in socket.emitted
            [] OTHER           -> FALSE

TunnelSocketEvent ==
    /\ ~clientCrashed
    /\ \E id \in TunnelIds, side \in Sides, event \in SocketEvents :
        /\ CanEmitTunnel(id, side, event)
        /\ ClientBecomes(EmitTunnelSocketEvent(ClientState, id, side, event))
    /\ UNCHANGED <<listenerVars, clientOptionVars, relay, proxyVars, clientSecret>>

\* A timer of a socket fires: its idle timeout, or killSocket's 500 ms timer.
TunnelSocketTimer ==
    /\ ~clientCrashed
    /\ \E id \in TunnelIds, side \in Sides, timer \in {"idle", "destruction"} :
        LET socket == SocketOf(ClientState, id, side)
        IN /\ socket.type # "free"
           /\ ~socket.destroyed
           /\ IF timer = "idle"
              THEN /\ socket.timeout \notin {"undefined", "0"}
                   /\ "timeout" \notin socket.emitted
                   /\ ClientBecomes(EmitTunnelSocketEvent(ClientState, id, side, "timeout"))
              ELSE /\ socket.DESTRUCTION_TIMEOUT
                   /\ ClientBecomes(SetSocket(ClientState, id, side,
                                              [socket EXCEPT !.destroyed = TRUE]))
    /\ UNCHANGED <<listenerVars, clientOptionVars, relay, proxyVars, clientSecret>>

\* The 300 ms timer of onTunnelClose fires.
DebounceFires ==
    /\ ~clientCrashed
    /\ fillTunnelsTimeout
    /\ ClientBecomes(onTunnelCloseDebounced(ClientState))
    /\ UNCHANGED <<listenerVars, clientOptionVars, relay, proxyVars, clientSecret>>

\* The timer of scheduleReconnect fires.
ReconnectFires ==
    /\ ~clientCrashed
    /\ timeout > 0
    /\ ClientBecomes(tryOpenTunnels([ClientState EXCEPT !.timeout = @ - 1]))
    /\ UNCHANGED <<listenerVars, clientOptionVars, relay, proxyVars, clientSecret>>

(***************************************************************************)
(* Construction of the Proxy (src/src/server.mjs, lines 13-58) and of the  *)
(* Client (src/unnamed/part_003, lines 141-153).  A value of an option is  *)
(* described by what the constructors look at: its typeof, whether it is   *)
(* NaN, the number it holds or spells, and its text when it is a string.   *)
(***************************************************************************)
Undefined == [typeof |-> "undefined", nan |-> FALSE, value |-> 0, text |-> ""]
Null == [typeof |-> "object", nan |-> FALSE, value |-> 0, text |-> ""]
NaN == [typeof |-> "number", nan |-> TRUE, value |-> 0, text |-> ""]
NumberValue(n) == [typeof |-> "number", nan |-> FALSE, value |-> n, text |-> ""]
StringValue(n) == [typeof |-> "string", nan |-> FALSE, value |-> n, text |-> "digits"]
TextValue(t) == [typeof |-> "string", nan |-> FALSE, value |-> 0, text |-> t]

\* !value
Falsy(value) == value \in {Undefined, Null, NaN, NumberValue(0), TextValue("")}

\* object[key]: undefined for a key the object does not have.
Get(object, key) == IF key \in DOMAIN object THEN object[key] ELSE Undefined

\* a === b
StrictEquals(a, b) == a = b /\ ~a.nan

\* The port numbers tried, and the values given for a port: nothing, null,
\* NaN, a number, or the text of a number.
Ports == {0, 80, 8080}
PortValues == {Undefined, Null, NaN} \cup {NumberValue(n) : n \in Ports}
                  \cup {StringValue(n) : n \in Ports}

\* The values given for a host and for a port of the Client.
HostValues == {Undefined, TextValue(""), TextValue("proxy.example")}
ClientPortValues == {Undefined, NumberValue(0), NumberValue(8080)}

\* The values given for a member of tunnelEncryption: nothing, the empty
\* string, or a string; and the values given for tunnelEncryption: nothing,
\* or an object of the three members.
CipherValues == {Undefined, TextValue(""), TextValue("aes-256-ctr")}
KeyValues == {Undefined, TextValue(""), TextValue("k")}
EncryptionValues == {Undefined} \cup [cipher : CipherValues, key : KeyValues, iv : KeyValues]

\* The defaults of the options the constructors examine.
defaultOptions ==
    [proxyPort  |-> NumberValue(80),
     tunnelHost |-> Undefined,
     tunnelPort |-> Undefined,
     appHost    |-> TextValue("localhost"),
     appPort    |-> NumberValue(80),
     tunnelEncryption |-> [key    |-> Undefined,
                           iv     |-> Undefined,
                           cipher |-> TextValue("aes-256-ctr")]]

\* typeof value === 'object', for a value that is not null: the objects are
\* the records of members.
IsObject(value) == "typeof" \notin DOMAIN value

\* The {} that applyOptions takes for options that are not given.
EmptyObject == [key \in {} |-> Undefined]

RECURSIVE applyOptions(_, _)
\* Mutant of applyOptions: an object is copied like any other value.
applyOptions_Shallow(defaultOpts, userOpts) ==
    [key \in DOMAIN defaultOpts |->
        IF Get(userOpts, key) # Undefined THEN Get(userOpts, key) ELSE defaultOpts[key]]

\* applyOptions(this, defaultOpts, userOpts): the keys of the defaults are
\* copied, and no other; a default that is an object is merged with the
\* user's value member by member.
applyOptions(defaultOpts, userOpts) ==
    [key \in DOMAIN defaultOpts |->
        LET userVal == Get(userOpts, key)
            defaultVal == defaultOpts[key]
        IN IF IsObject(defaultVal)
           THEN applyOptions(defaultVal, IF userVal = Undefined THEN EmptyObject ELSE userVal)
           ELSE IF userVal # Undefined THEN userVal
           ELSE defaultVal]

\* canEncryptTunnel({cipher, key, iv})
canEncryptTunnel(tunnelEncryption) ==
    /\ ~Falsy(Get(tunnelEncryption, "cipher"))
    /\ ~Falsy(Get(tunnelEncryption, "key"))
    /\ ~Falsy(Get(tunnelEncryption, "iv"))

\* this.encryptTunnel, as processOptions sets it.
encryptTunnel(this) == canEncryptTunnel(this.tunnelEncryption)

\* Mutant of processOptions: the two ports are not compared.
processOptions_PortsNotCompared(userOpts) ==
    LET this == applyOptions(defaultOptions, userOpts)
    IN IF this.proxyPort.typeof # "number"
       THEN [this |-> this, thrown |-> "proxyPort not defined"]
       ELSE IF this.tunnelPort.typeof # "number"
       THEN [this |-> this, thrown |-> "tunnelPort not defined"]
       ELSE [this |-> this, thrown |-> "none"]

\* Mutant of processOptions: tunnelPort is not examined.
processOptions_TunnelPortUnchecked(userOpts) ==
    LET this == applyOptions(defaultOptions, userOpts)
    IN IF this.proxyPort.typeof # "number"
       THEN [this |-> this, thrown |-> "proxyPort not defined"]
       ELSE IF StrictEquals(this.proxyPort, this.tunnelPort)
       THEN [this |-> this, thrown |-> "proxyPort cannot be the same as tunnelPort"]
       ELSE [this |-> this, thrown |-> "none"]

\* ProxyServer.processOptions: the options the Proxy runs with, and the
\* error thrown, if any.
processOptions(userOpts) ==
    LET this == applyOptions(defaultOptions, userOpts)
    IN IF this.proxyPort.typeof # "number"
       THEN [this |-> this, thrown |-> "proxyPort not defined"]
       ELSE IF this.tunnelPort.typeof # "number"
       THEN [this |-> this, thrown |-> "tunnelPort not defined"]
       ELSE IF StrictEquals(this.proxyPort, this.tunnelPort)
       THEN [this |-> this, thrown |-> "proxyPort cannot be the same as tunnelPort"]
       ELSE [this |-> this, thrown |-> "none"]

\* net.Server emits 'listening', 'close' and the error of listen on the
\* next tick (process.nextTick); the ticks run in the order they were asked
\* for.
Tick(listener, event) == [listener |-> listener, event |-> event]

\* A server whose handle was closed emits no 'listening'.
WithoutTick(queue, tick) == SelectSeq(queue, LAMBDA t : t # tick)

\* ProxyServer.startProxyServer up to its return: the server is created and
\* listen has been called.
startProxyServer(p) ==
    [p EXCEPT !.proxyServer = "starting",
              !.ticks = Append(@, Tick("proxy", "listening"))]

\* ProxyServer.startTunnelServer up to its return.
startTunnelServer(p) ==
    [p EXCEPT !.tunnelServer = "starting",
              !.ticks = Append(@, Tick("tunnel", "listening"))]

\* ProxyServer.restartProxyServer: this.proxy.close(this.startProxyServer).
\* close() releases the handle and has 'close' emitted on the next tick, be
\* the server listening or not; startProxyServer waits for that event.
restartProxyServer(p) ==
    [p EXCEPT !.proxyServer = "closed",
              !.ticks = Append(WithoutTick(@, Tick("proxy", "listening")),
                               Tick("proxy", "close"))]

\* ProxyServer.restartTunnelServer: this.tunnel.close(this.startTunnelServer).
restartTunnelServer(p) ==
    [p EXCEPT !.tunnelServer = "closed",
              !.ticks = Append(WithoutTick(@, Tick("tunnel", "listening")),
                               Tick("tunnel", "close"))]

\* 'close' of a public server: its listeners in the order they were added,
\* restartProxyServer of startProxyServer and then the callback of close().
onProxyServerClose(p) == startProxyServer(restartProxyServer(p))

\* 'close' of a tunnel server.
onTunnelServerClose(p) == startTunnelServer(restartTunnelServer(p))

\* new ProxyServer(userOpts): the listeners and the error thrown.
ProxyServer(userOpts) ==
    LET processed == processOptions(userOpts)
        p == [proxyServer |-> "undefined", tunnelServer |-> "undefined",
              thrown |-> processed.thrown, ticks |-> <<>>]
    IN IF processed.thrown # "none"
       THEN p
       ELSE startTunnelServer(startProxyServer(p))

\* The Proxy's listeners as the variables have them, and as a handler
\* leaves them.
Listeners ==
    [proxyServer |-> proxyServer, tunnelServer |-> tunnelServer,
     thrown |-> thrown, ticks |-> ticks]

ListenersBecome(p) ==
    /\ proxyServer' = p.proxyServer
    /\ tunnelServer' = p.tunnelServer
    /\ thrown' = p.thrown
    /\ ticks' = p.ticks
    /\ UNCHANGED <<proxyVars, clientVars, clientOptionVars, clientSecret, options, relay>>

\* The program constructs the Proxy.
Construct ==
    /\ thrown = "none"
    /\ proxyServer = "undefined"
    /\ ListenersBecome(ProxyServer(options))
    /\ UNCHANGED failures

\* The tick of a server that was started: it emits 'listening'.
Listening ==
    /\ ticks # <<>>
    /\ Head(ticks).event = "listening"
    /\ \/ /\ Head(ticks).listener = "proxy"
          /\ ListenersBecome([Listeners EXCEPT !.proxyServer = "listening", !.ticks = Tail(@)])
       \/ /\ Head(ticks).listener = "tunnel"
          /\ ListenersBecome([Listeners EXCEPT !.tunnelServer = "listening", !.ticks = Tail(@)])
    /\ UNCHANGED failures

\* The tick of a server whose listen has failed: it emits 'error'.
ListenerError ==
    /\ ticks # <<>>
    /\ Head(ticks).event = "error"
    /\ \/ /\ Head(ticks).listener = "proxy"
          /\ ListenersBecome(restartProxyServer([Listeners EXCEPT !.ticks = Tail(@)]))
       \/ /\ Head(ticks).listener = "tunnel"
          /\ ListenersBecome(restartTunnelServer([Listeners EXCEPT !.ticks = Tail(@)]))
    /\ UNCHANGED failures

\* The tick of a server that was closed: it emits 'close'.
ListenerClose ==
    /\ ticks # <<>>
    /\ Head(ticks).event = "close"
    /\ \/ /\ Head(ticks).listener = "proxy"
          /\ ListenersBecome(onProxyServerClose([Listeners EXCEPT !.ticks = Tail(@)]))
       \/ /\ Head(ticks).listener = "tunnel"
          /\ ListenersBecome(onTunnelServerClose([Listeners EXCEPT !.ticks = Tail(@)]))
    /\ UNCHANGED failures

\* listen(port) fails, the port being in use: the handle is closed and the
\* tick of the server is for 'error'.
ErrorForListening(queue, listener) ==
    [i \in 1 .. Len(queue) |->
        IF queue[i] = Tick(listener, "listening") THEN Tick(listener, "error") ELSE queue[i]]

ListenFails ==
    /\ failures < MaxFailures
    /\ failures' = failures + 1
    /\ \/ /\ proxyServer = "starting"
          /\ ListenersBecome([Listeners EXCEPT !.proxyServer = "closed",
                                               !.ticks = ErrorForListening(@, "proxy")])
       \/ /\ tunnelServer = "starting"
          /\ ListenersBecome([Listeners EXCEPT !.tunnelServer = "closed",
                                               !.ticks = ErrorForListening(@, "tunnel")])

\* accept fails on a server that listens: it emits 'error' at once.
AcceptFails ==
    /\ failures < MaxFailures
    /\ failures' = failures + 1
    /\ \/ /\ proxyServer = "listening"
          /\ ListenersBecome(restartProxyServer(Listeners))
       \/ /\ tunnelServer = "listening"
          /\ ListenersBecome(restartTunnelServer(Listeners))

\* ProxyClient.processOptions: the options the Client runs with, and the
\* error thrown, if any.
ClientProcessOptions(userOpts) ==
    LET this == applyOptions(defaultOptions, userOpts)
    IN IF Falsy(Get(this, "appHost"))
       THEN [this |-> this, thrown |-> "appHost is undefined"]
       ELSE IF Falsy(Get(this, "appPort"))
       THEN [this |-> this, thrown |-> "appPort is undefined"]
       ELSE IF Falsy(Get(this, "proxyHost"))
       THEN [this |-> this, thrown |-> "proxyHost is undefined"]
       ELSE IF Falsy(Get(this, "tunnelPort"))
       THEN [this |-> this, thrown |-> "tunnelPort is undefined"]
       ELSE [this |-> this, thrown |-> "none"]

\* The Client before its constructor has run.
ClientFields ==
    [openTunnels        |-> <<>>,
     tunnels            |-> [id \in TunnelIds |-> NewTunnel],
     fillTunnelsTimeout |-> FALSE,
     timeout            |-> 0,
     crashed            |-> FALSE,
     overflow           |-> FALSE]

\* new ProxyClient(userOpts): the Client's state and the error thrown.
ProxyClient(userOpts) ==
    LET processed == ClientProcessOptions(userOpts)
    IN IF processed.thrown # "none"
       THEN [state |-> ClientFields, thrown |-> processed.thrown]
       ELSE [state |-> tryOpenTunnels(ClientFields), thrown |-> "none"]

\* The program constructs the Client.
ConstructClient ==
    /\ clientThrown = "none"
    /\ \A id \in TunnelIds : ~tunnels[id].created
    /\ LET c == ProxyClient(clientOptions)
       IN /\ ClientBecomes(c.state)
          /\ clientThrown' = c.thrown
    /\ UNCHANGED <<proxyVars, listenerVars, clientSecret, clientOptions, relay>>

(***************************************************************************)
(* The specifications.  Spec and SpecClient start right after              *)
(* construction: the Proxy listens with nothing accepted, the Client has   *)
(* run tryOpenTunnels up to its await.  Spec runs the Proxy against every  *)
(* peer, SpecClient runs the Client against every Proxy and app, and       *)
(* SpecConstruction runs the two constructors on every choice of options.  *)
(***************************************************************************)
(***************************************************************************)
(* The bytes of one pairing: a request and a tunnel socket on the Proxy    *)
(* (src/src/server.mjs, pipeSockets), the remote and the local socket of   *)
(* the Tunnel on the Client (src/unnamed/part_003, pipeSockets), and the   *)
(* handshake that shares the tunnel's stream with them.  What one end      *)
(* writes to a socket is appended to what the other end has to read.  A    *)
(* cipher of crypto is a stream cipher: it adds to each byte a key stream  *)
(* that depends on cipher, key, iv and the byte's position.                *)
(***************************************************************************)
Bytes == 0 .. (ByteValues - 1)

\* The bytes the public client and the app write.
DataBytes == {0, 1}

\* The merged tunnelEncryption options an end is run with: none given; a
\* key and an iv; another key.
RelayEncryptions ==
    {applyOptions(defaultOptions, [tunnelEncryption |-> given]).tunnelEncryption :
        given \in {Undefined,
                   [key |-> StringValue(1), iv |-> StringValue(1)],
                   [key |-> StringValue(2), iv |-> StringValue(1)]}}

\* The key stream of crypto.createCipheriv(cipher, key, iv) at a position.
Keystream(te, position) == (te.key.value + te.iv.value + position) % ByteValues

\* createCipher({cipher, key, iv}): a cipher and a decipher at position 0.
createCipher(te) ==
    [cipher   |-> [te |-> te, position |-> 0],
     decipher |-> [te |-> te, position |-> 0]]

\* What a cipher makes of a chunk piped into it.
Encrypt(c, chunk) ==
    [i \in 1 .. Len(chunk) |->
        (chunk[i] + Keystream(c.te, c.position + i - 1)) % ByteValues]

\* A decipher that starts its key stream anew with every chunk.
Decrypt_PerChunk(c, chunk) ==
    [i \in 1 .. Len(chunk) |->
        (chunk[i] + ByteValues - Keystream(c.te, i - 1)) % ByteValues]

\* What a decipher makes of a chunk piped into it.
Decrypt(c, chunk) ==
    [i \in 1 .. Len(chunk) |->
        (chunk[i] + ByteValues - Keystream(c.te, c.position + i - 1)) % ByteValues]

\* The cipher or decipher after a chunk.
Advance(c, chunk) == [c EXCEPT !.position = @ + Len(chunk)]

\* The two ends before any connection: the Proxy with its encryption and
\* secret, the Client with its own.
NewRelay(proxyEncryption, clientEncryption) ==
    [proxyEncryption  |-> proxyEncryption,
     clientEncryption |-> clientEncryption,
     \* what each socket has to read
     request |-> <<>>, tunnel |-> <<>>, remote |-> <<>>, local |-> <<>>,
     \* what the public client and the app have written and received
     byPublic |-> <<>>, byApp |-> <<>>, toPublic |-> <<>>, toApp |-> <<>>,
     \* the Proxy: the request and the tunnel it holds, and its pipes
     requestState |-> "none",      \* none, queued, piped
     tunnelState  |-> "none",      \* none, handshake, pooled, piped, rejected
     proxyPipes   |-> createCipher(proxyEncryption),
     \* the Client's Tunnel
     remoteState  |-> "opening",   \* opening, waiting, open, closed
     localOpen    |-> FALSE,
     verified     |-> FALSE,
     piping       |-> FALSE,
     clientPipes  |-> createCipher(clientEncryption)]

\* ProxyServer.pipeSockets(request, tunnel)
RelayPipeSockets(r) ==
    [r EXCEPT !.requestState = "piped",
              !.tunnelState = "piped",
              !.proxyPipes = createCipher(r.proxyEncryption)]

\* ProxyServer.acceptTunnel(tunnel)
RelayAcceptTunnel(r) ==
    IF r.requestState = "queued"
    THEN RelayPipeSockets(r)
    ELSE [r EXCEPT !.tunnelState = "pooled"]

\* ProxyServer.onProxyRequest(request)
RelayOnProxyRequest(r) ==
    IF r.tunnelState = "pooled"
    THEN RelayPipeSockets(r)
    ELSE [r EXCEPT !.requestState = "queued"]

\* ProxyServer.onTunnelOpened(tunnel) up to its await.
RelayOnTunnelOpened(r) ==
    IF secret # <<>>
    THEN [r EXCEPT !.tunnelState = "handshake"]
    ELSE RelayAcceptTunnel(r)

\* verifyReceiverTunnel's 'readable' listener with the write of the status
\* byte and what follows it in onTunnelOpened.
RelayOnReadable(r) ==
    LET challenge == SocketRead(r.tunnel, Len(secret), FALSE)
        rest == SubSeq(r.tunnel, Len(challenge.data) + 1, Len(r.tunnel))
    IN IF challenge.null
       THEN [r EXCEPT !.remote = Append(@, CHALLENGE.EMPTY), !.tunnelState = "rejected"]
       ELSE IF Utf8Decode(challenge.data) # secret
       THEN [r EXCEPT !.tunnel = rest,
                      !.remote = Append(@, CHALLENGE.INCORRECT),
                      !.tunnelState = "rejected"]
       ELSE RelayAcceptTunnel([r EXCEPT !.tunnel = rest,
                                        !.remote = Append(@, CHALLENGE.VERIFIED)])

\* Tunnel.pipeSockets
RelayTunnelPipeSockets(r) ==
    [r EXCEPT !.piping = TRUE, !.clientPipes = createCipher(r.clientEncryption)]

\* Tunnel.tryEmitConnect
RelayTryEmitConnect(r) ==
    IF r.remoteState = "open" /\ r.localOpen /\ r.verified /\ ~r.piping
    THEN RelayTunnelPipeSockets(r)
    ELSE r

\* Tunnel.acceptTunnel
RelayTunnelAcceptTunnel(r) == RelayTryEmitConnect([r EXCEPT !.verified = TRUE])

\* The 'connect' listener of the remote socket, with verifySenderTunnel's
\* write of the secret.
RelayOnRemoteConnect(r) ==
    IF clientSecret # <<>>
    THEN [r EXCEPT !.remoteState = "waiting", !.tunnel = @ \o Utf8Encode(clientSecret)]
    ELSE RelayTunnelAcceptTunnel([r EXCEPT !.remoteState = "open"])

\* verifySenderTunnel's 'readable' listener and what follows it in the
\* 'connect' listener.
RelayOnSenderReadable(r) ==
    LET accepted == Head(r.remote)
        r1 == [r EXCEPT !.remote = Tail(@)]
    IN IF senderAccepts(accepted)
       THEN RelayTunnelAcceptTunnel([r1 EXCEPT !.remoteState = "open"])
       ELSE [r1 EXCEPT !.remoteState = "closed"]

\* request.pipe(cipher).pipe(tunnel), or request.pipe(tunnel), for a chunk.
ProxyForwards(r, n) ==
    LET chunk == SubSeq(r.request, 1, n)
        rest == SubSeq(r.request, n + 1, Len(r.request))
    IN IF canEncryptTunnel(r.proxyEncryption)
       THEN [r EXCEPT !.request = rest,
                      !.remote = @ \o Encrypt(r.proxyPipes.cipher, chunk),
                      !.proxyPipes.cipher = Advance(@, chunk)]
       ELSE [r EXCEPT !.request = rest, !.remote = @ \o chunk]

\* tunnel.pipe(decipher).pipe(request), or tunnel.pipe(request), for a chunk.
ProxyReturns(r, n) ==
    LET chunk == SubSeq(r.tunnel, 1, n)
        rest == SubSeq(r.tunnel, n + 1, Len(r.tunnel))
    IN IF canEncryptTunnel(r.proxyEncryption)
       THEN [r EXCEPT !.tunnel = rest,
                      !.toPublic = @ \o Decrypt(r.proxyPipes.decipher, chunk),
                      !.proxyPipes.decipher = Advance(@, chunk)]
       ELSE [r EXCEPT !.tunnel = rest, !.toPublic = @ \o chunk]

\* remote.pipe(decipher).pipe(local), or remote.pipe(local), for a chunk.
ClientForwards(r, n) ==
    LET chunk == SubSeq(r.remote, 1, n)
        rest == SubSeq(r.remote, n + 1, Len(r.remote))
    IN IF canEncryptTunnel(r.clientEncryption)
       THEN [r EXCEPT !.remote = rest,
                      !.toApp = @ \o Decrypt(r.clientPipes.decipher, chunk),
                      !.clientPipes.decipher = Advance(@, chunk)]
       ELSE [r EXCEPT !.remote = rest, !.toApp = @ \o chunk]

\* local.pipe(cipher).pipe(remote), or local.pipe(remote), for a chunk.
ClientReturns(r, n) ==
    LET chunk == SubSeq(r.local, 1, n)
        rest == SubSeq(r.local, n + 1, Len(r.local))
    IN IF canEncryptTunnel(r.clientEncryption)
       THEN [r EXCEPT !.local = rest,
                      !.tunnel = @ \o Encrypt(r.clientPipes.cipher, chunk),
                      !.clientPipes.cipher = Advance(@, chunk)]
       ELSE [r EXCEPT !.local = rest, !.tunnel = @ \o chunk]

\* The steps of the pairing.  Everything but relay stays as it is.
RelayBecomes(r) ==
    /\ relay' = r
    /\ UNCHANGED <<proxyVars, clientVars, listenerVars, clientOptionVars, clientSecret>>

\* The public client connects to the Proxy.
RelayRequest ==
    /\ relay.requestState = "none"
    /\ RelayBecomes(RelayOnProxyRequest(relay))

\* The Client's remote socket connects, and the Proxy accepts it; the two
\* 'connect' events come in either order.
RelayTunnelOpened ==
    /\ relay.tunnelState = "none"
    /\ RelayBecomes(RelayOnTunnelOpened(relay))

RelayRemoteConnect ==
    /\ relay.remoteState = "opening"
    /\ RelayBecomes(RelayOnRemoteConnect(relay))

\* The Client's local socket connects to the app.
RelayLocalConnect ==
    /\ ~relay.localOpen
    /\ RelayBecomes(RelayTryEmitConnect([relay EXCEPT !.localOpen = TRUE]))

\* 'readable' on the Proxy's tunnel socket during the handshake.
RelayTunnelReadable ==
    /\ relay.tunnelState = "handshake"
    /\ relay.tunnel # <<>>
    /\ RelayBecomes(RelayOnReadable(relay))

\* 'readable' on the Client's remote socket during the handshake.
RelayRemoteReadable ==
    /\ relay.remoteState = "waiting"
    /\ relay.remote # <<>>
    /\ RelayBecomes(RelayOnSenderReadable(relay))

\* The public client writes a byte to its connection.
PublicWrites ==
    /\ relay.requestState # "none"
    /\ Len(relay.byPublic) < MaxBytes
    /\ \E b \in DataBytes :
          RelayBecomes([relay EXCEPT !.byPublic = Append(@, b), !.request = Append(@, b)])

\* The app writes a byte to its connection.
AppWrites ==
    /\ relay.localOpen
    /\ Len(relay.byApp) < MaxBytes
    /\ \E b \in DataBytes :
          RelayBecomes([relay EXCEPT !.byApp = Append(@, b), !.local = Append(@, b)])

\* 'data' on a piped socket of the Proxy: a chunk of what it has to read.
ProxyData ==
    \/ /\ relay.requestState = "piped"
       /\ \E n \in 1 .. Len(relay.request) : RelayBecomes(ProxyForwards(relay, n))
    \/ /\ relay.tunnelState = "piped"
       /\ \E n \in 1 .. Len(relay.tunnel) : RelayBecomes(ProxyReturns(relay, n))

\* 'data' on a piped socket of the Client's Tunnel.
ClientData ==
    \/ /\ relay.piping
       /\ \E n \in 1 .. Len(relay.remote) : RelayBecomes(ClientForwards(relay, n))
    \/ /\ relay.piping
       /\ \E n \in 1 .. Len(relay.local) : RelayBecomes(ClientReturns(relay, n))

\* The options a Proxy and a Client are run with when nothing else is said.
ProxyOptionsGiven ==
    [proxyPort |-> NumberValue(80), tunnelPort |-> NumberValue(8080),
     tunnelEncryption |-> Undefined]

ProxyOptionsMerged == applyOptions(defaultOptions, ProxyOptionsGiven)

ClientOptionsGiven ==
    [proxyHost  |-> TextValue("proxy.example"),
     tunnelPort |-> NumberValue(8080),
     appPort    |-> NumberValue(8080)]

ProxyFields ==
    /\ tunnelPool = <<>>
    /\ requestQueue = <<>>
    /\ sockets = [s \in SocketIds |-> NewSocket]
    /\ handshake = [s \in SocketIds |-> NewHandshake]
    /\ piped = <<>>
    /\ crashed = FALSE
    /\ logged = <<>>
    /\ wire = [s \in SocketIds |-> <<>>]

\* The Proxy constructed with two different ports, both servers listening.
ProxyConstructed ==
    /\ ProxyFields
    /\ relay = NewRelay(ProxyOptionsMerged.tunnelEncryption, ProxyOptionsMerged.tunnelEncryption)
    /\ options = ProxyOptionsGiven
    /\ thrown = ProxyServer(options).thrown
    /\ proxyServer = "listening"
    /\ tunnelServer = "listening"
    /\ ticks = <<>>
    /\ failures = 0

\* The Client's variables hold state c.
ClientIs(c) ==
    /\ openTunnels = c.openTunnels
    /\ tunnels = c.tunnels
    /\ fillTunnelsTimeout = c.fillTunnelsTimeout
    /\ timeout = c.timeout
    /\ clientCrashed = c.crashed

\* The Client past its processOptions, with tryOpenTunnels run up to its
\* await.
ClientConstructed ==
    /\ ClientIs(tryOpenTunnels(ClientFields))
    /\ clientOptions = ClientOptionsGiven
    /\ clientThrown = "none"

Init ==
    /\ secret \in Strings
    /\ clientSecret \in Strings
    /\ ProxyConstructed
    /\ ClientConstructed

Next ==
    \/ ProxyRequest
    \/ TunnelOpened
    \/ TunnelData
    \/ WriteCallback
    \/ SocketEvent
    \/ SocketTimer

Spec == Init /\ [][Next]_vars

\* The Client with no secret or a secret of one character, which the Proxy
\* has too.
SecretsOfClient ==
    /\ clientSecret \in {<<>>, <<1>>}
    /\ secret = clientSecret

InitClient ==
    /\ SecretsOfClient
    /\ ProxyConstructed
    /\ ClientConstructed

NextClient ==
    \/ RemoteConnect
    \/ LocalConnect
    \/ ProxyReply
    \/ TunnelSocketEvent
    \/ TunnelSocketTimer
    \/ DebounceFires
    \/ ReconnectFires

SpecClient == InitClient /\ [][NextClient]_vars

\* Either end on its own: the Proxy's steps while the Client is as it was
\* constructed, the Client's steps while the Proxy is.
NextEnds ==
    \/ ClientIs(tryOpenTunnels(ClientFields)) /\ Next
    \/ ProxyFields /\ SecretsOfClient /\ NextClient

SpecEnds == Init /\ [][NextEnds]_vars

\* The construction of the Proxy with every choice of its two ports.
InitConstruction ==
    /\ options \in [proxyPort : PortValues, tunnelPort : PortValues,
                    tunnelEncryption : EncryptionValues]
    /\ \/ options.tunnelEncryption = Undefined
       \/ /\ options.proxyPort = ProxyOptionsGiven.proxyPort
          /\ options.tunnelPort = ProxyOptionsGiven.tunnelPort
    /\ proxyServer = "undefined"
    /\ tunnelServer = "undefined"
    /\ ticks = <<>>
    /\ failures = 0
    /\ thrown = "none"
    /\ secret = <<>>
    /\ clientSecret = <<>>
    /\ ProxyFields
    /\ clientOptions \in [proxyHost : HostValues, tunnelPort : ClientPortValues,
                          appPort : ClientPortValues]
    /\ options = ProxyOptionsGiven \/ clientOptions = ClientOptionsGiven
    /\ clientThrown = "none"
    /\ ClientIs(ClientFields)
    /\ relay = NewRelay(ProxyOptionsMerged.tunnelEncryption, ProxyOptionsMerged.tunnelEncryption)

NextConstruction ==
    \/ Construct
    \/ Listening
    \/ ConstructClient

SpecConstruction == InitConstruction /\ [][NextConstruction]_vars

\* The construction and the listeners afterwards, with listen and accept
\* failing at times.  A tick that was asked for runs.
NextListeners ==
    \/ Construct
    \/ Listening
    \/ ConstructClient
    \/ ListenFails
    \/ AcceptFails
    \/ ListenerError
    \/ ListenerClose

SpecListeners ==
    /\ InitConstruction
    /\ [][NextListeners]_vars
    /\ WF_vars(Listening)
    /\ WF_vars(ListenerError)
    /\ WF_vars(ListenerClose)

\* One request and one tunnel, for every choice of the encryption options
\* of the two ends and of the secret they share.
InitRelay ==
    /\ secret \in {<<>>, <<1>>}
    /\ clientSecret = secret
    /\ ProxyFields
    /\ options = ProxyOptionsGiven
    /\ thrown = "none"
    /\ proxyServer = "listening"
    /\ tunnelServer = "listening"
    /\ ticks = <<>>
    /\ failures = 0
    /\ ClientConstructed
    /\ \E proxyEncryption \in RelayEncryptions, clientEncryption \in RelayEncryptions :
          relay = NewRelay(proxyEncryption, clientEncryption)

NextRelay ==
    \/ RelayRequest
    \/ RelayTunnelOpened
    \/ RelayRemoteConnect
    \/ RelayLocalConnect
    \/ RelayTunnelReadable
    \/ RelayRemoteReadable
    \/ PublicWrites
    \/ AppWrites
    \/ ProxyData
    \/ ClientData

SpecRelay == InitRelay /\ [][NextRelay]_vars

(***************************************************************************)
(* Properties of the Proxy.                                                *)
(***************************************************************************)
PoolSet == {tunnelPool[i] : i \in 1 .. Len(tunnelPool)}
QueueSet == {requestQueue[i] : i \in 1 .. Len(requestQueue)}
PipedRequests == {piped[i][1] : i \in 1 .. Len(piped)}
PipedTunnels == {piped[i][2] : i \in 1 .. Len(piped)}

\* This step is onProxyRequest for socket s / acceptTunnel for socket t.
RequestArrives(s) == sockets[s].type = "free" /\ sockets'[s].type = "request"
TunnelAccepted(t) == ~sockets[t].keepAlive /\ sockets'[t].keepAlive

\* C1: tunnelPool and requestQueue are never both non-empty; a request that
\* arrives while a tunnel is idle, and a tunnel accepted while a request
\* waits, make exactly one pairing and neither queue grows.
C1_NeverBothNonEmpty ==
    /\ [](tunnelPool = <<>> \/ requestQueue = <<>>)
    /\ [][/\ \A s \in SocketIds : RequestArrives(s) /\ tunnelPool # <<>> =>
                /\ Len(piped') = Len(piped) + 1
                /\ Len(tunnelPool') = Len(tunnelPool) - 1
                /\ requestQueue' = <<>>
          /\ \A t \in SocketIds : TunnelAccepted(t) /\ requestQueue # <<>> =>
                /\ Len(piped') = Len(piped) + 1
                /\ Len(requestQueue') = Len(requestQueue) - 1
                /\ tunnelPool' = <<>>]_vars

\* A tunnel that had to pass the handshake has served the request that
\* arrived before it was opened while a later request waits.
C1_Witness ==
    /\ secret # <<>>
    /\ Len(piped) = 1
    /\ piped[1][1] < piped[1][2]
    /\ requestQueue # <<>>

\* C2: no socket is passed to pipeSockets twice: every request of piped is
\* there once, with one tunnel, and every tunnel once, with one request.
C2_PairedOnce ==
    /\ \A i, j \in 1 .. Len(piped) :
          i # j => piped[i][1] # piped[j][1] /\ piped[i][2] # piped[j][2]
    /\ \A i \in 1 .. Len(piped) :
          /\ sockets[piped[i][1]].type = "request"
          /\ sockets[piped[i][2]].type = "tunnel"
    /\ PipedRequests \cap QueueSet = {}
    /\ PipedTunnels \cap PoolSet = {}

\* A request and a tunnel are paired, and a socket that came after them had
\* to wait: it was not given a partner that is taken.
C2_Witness ==
    /\ Len(piped) = 1
    /\ \/ \E r \in QueueSet : r > piped[1][1] /\ r > piped[1][2]
       \/ \E t \in PoolSet : t > piped[1][1] /\ t > piped[1][2]

\* C3: with a secret configured, a tunnel in tunnelPool or passed to
\* pipeSockets has passed verifyReceiverTunnel: its promise was resolved,
\* after VERIFIED was written.
C3_OnlyVerifiedTunnels ==
    secret # <<>> =>
        \A t \in PoolSet \cup PipedTunnels :
            /\ handshake[t].state = "resolved"
            /\ handshake[t].written = <<CHALLENGE.VERIFIED>>

\* With a secret configured, one tunnel was verified and is pooled, and
\* another is open whose handshake is not over.
C3_Witness ==
    /\ secret # <<>>
    /\ PoolSet # {}
    /\ \E t \in SocketIds : handshake[t].state = "listening"

\* C5 as claimed: once a socket of a pair has emitted 'end' or 'close', the
\* other socket of the pair has been ended by killSocket.
C5_PartnerIsKilled ==
    \A i \in 1 .. Len(piped) :
        LET request == piped[i][1]
            tunnel == piped[i][2]
        IN /\ sockets[request].emitted \cap {"end", "close"} # {}
                => sockets[tunnel].writableEnded
           /\ sockets[tunnel].emitted \cap {"end", "close"} # {}
                => sockets[request].writableEnded

\* The handshake of tunnel t is over: decided by the 'readable' listener, or
\* the challenge timeout has fired on the waiting socket.
HandshakeOver(t) ==
    \/ handshake[t].state \in {"writing", "resolved", "rejected"}
    \/ handshake[t].state = "listening" /\ "timeout" \in sockets[t].emitted

C8_RequestsFIFO ==
    [][/\ \A s \in SocketIds : RequestArrives(s) /\ tunnelPool = <<>> =>
             requestQueue' = Append(requestQueue, s)
       /\ \A t \in SocketIds : TunnelAccepted(t) /\ requestQueue # <<>> =>
             /\ piped' = Append(piped, <<Head(requestQueue), t>>)
             /\ requestQueue' = Tail(requestQueue)
       /\ \A r \in QueueSet :
             r \in {piped'[i][1] : i \in 1 .. Len(piped')} => r = Head(requestQueue)]_vars

\* Two requests waited, and the tunnel that was opened after both has
\* served the earlier one.
C8_Witness ==
    \E i \in 1 .. Len(piped), later \in QueueSet :
        /\ piped[i][1] < later
        /\ later < piped[i][2]

\* C9: a tunnel accepted while no request waits joins the end of tunnelPool,
\* and a request that arrives while tunnels are idle is paired with the head
\* of tunnelPool: no idle tunnel is consumed before one accepted earlier.
C9_TunnelsFIFO ==
    [][/\ \A t \in SocketIds : TunnelAccepted(t) /\ requestQueue = <<>> =>
             tunnelPool' = Append(tunnelPool, t)
       /\ \A s \in SocketIds : RequestArrives(s) /\ tunnelPool # <<>> =>
             /\ piped' = Append(piped, <<s, Head(tunnelPool)>>)
             /\ tunnelPool' = Tail(tunnelPool)
       /\ \A t \in PoolSet :
             t \in {piped'[i][2] : i \in 1 .. Len(piped')} => t = Head(tunnelPool)]_vars

\* Two tunnels were idle (no secret: accepted as they were opened), and the
\* request that arrived after both was given the earlier one.
C9_Witness ==
    /\ secret = <<>>
    /\ \E i \in 1 .. Len(piped), later \in PoolSet :
          /\ piped[i][2] < later
          /\ later < piped[i][1]

\* A string of one-byte characters: as many bytes as characters.
IsAscii(str) == \A i \in 1 .. Len(str) : str[i] = 1

\* The handshake of tunnel t was decided by the 'readable' listener on bytes
\* that had arrived, not on the end of the stream.
DecidedOnBytes(t) ==
    /\ handshake[t].state \in {"writing", "resolved", "rejected"}
    /\ ~sockets[t].fin

\* C10 as claimed: when the Client sends exactly the Proxy's secret (here
\* one of one-byte characters) and the handshake is decided on what arrived
\* (no timeout, no end of the stream), the status written is VERIFIED,
\* however the bytes were split into chunks.
C10_OwnSecretIsVerified ==
    \A t \in SocketIds :
        /\ secret # <<>>
        /\ clientSecret = secret
        /\ IsAscii(secret)
        /\ DecidedOnBytes(t)
        => handshake[t].written = <<CHALLENGE.VERIFIED>>

\* C4 as claimed: when the Client's secret differs from the Proxy's and is as
\* long (in characters and in bytes), the Proxy's one reply is INCORRECT, a
\* byte the Client's Tunnel does not accept, and the Proxy has ended the
\* tunnel once the write is done.
C4_WrongSecretIsRefused ==
    \A t \in SocketIds :
        /\ secret # <<>>
        /\ clientSecret # secret
        /\ Len(clientSecret) = Len(secret)
        /\ Len(Utf8Encode(clientSecret)) = Len(Utf8Encode(secret))
        /\ DecidedOnBytes(t)
        => /\ handshake[t].written = <<CHALLENGE.INCORRECT>>
           /\ ~senderAccepts(handshake[t].written[1])
           /\ handshake[t].state # "resolved"
           /\ handshake[t].state = "rejected" => sockets[t].writableEnded

\* The challenge timeout has fired on tunnel t while its handshake waited.
TimedOut(t) == handshake[t].state = "listening" /\ "timeout" \in sockets[t].emitted

\* What the end of the stream of tunnel t would do to a handshake that waits
\* and has nothing under way: the status bytes then written.
WrittenAtEnd(t) == ReceiveEnd(ProxyState, t).handshake[t].written

C12_PairNeverQueued ==
    (PipedRequests \cup PipedTunnels) \cap (QueueSet \cup PoolSet) = {}

\* A socket of a pair has emitted a terminal event while another socket
\* waits in tunnelPool or requestQueue.
C12_Witness ==
    /\ QueueSet \cup PoolSet # {}
    /\ \E p \in PipedRequests \cup PipedTunnels : sockets[p].emitted # {}

\* C13 as claimed: a request socket that has emitted its first error, end,
\* timeout or close is no longer in requestQueue, is ended, and is destroyed
\* or has the timer of killSocket running.
C13_RequestIsRemoved ==
    \A s \in SocketIds :
        sockets[s].type = "request" /\ sockets[s].emitted # {} =>
            /\ s \notin QueueSet
            /\ sockets[s].writableEnded
            /\ sockets[s].destroyed \/ sockets[s].DESTRUCTION_TIMEOUT

\* C14 as claimed: a tunnel socket that has emitted error, end, timeout or
\* close is not in tunnelPool.
C14_IdleTunnelIsRemoved ==
    \A t \in SocketIds :
        sockets[t].type = "tunnel" /\ sockets[t].emitted # {} => t \notin PoolSet

Probes == {id \in TunnelIds : tunnels[id].created /\ tunnels[id].awaited}

\* This step has created Tunnels: every handler either pushes to openTunnels
\* or removes from it, never both.
TunnelsOpened == Len(openTunnels') > Len(openTunnels)

\* While tryOpenTunnels awaits its probe, the probe is the only Tunnel, it
\* has not emitted 'connect', and no timer of the Client is pending.
C15_ProbeIsAlone ==
    Probes # {} =>
        /\ openTunnels = <<1>>
        /\ Probes = {1}
        /\ ~tunnels[1].piping
        /\ timeout = 0
        /\ ~fillTunnelsTimeout

\* The steps around a probe: from an empty pool only the retry timer opens a
\* Tunnel, and it opens exactly the probe; while the probe is awaited,
\* Tunnels are opened only by the step in which the probe emits 'connect',
\* and that step fills the pool; a probe that closes opens nothing.
C15_ProbeSteps ==
    /\ TunnelsOpened /\ openTunnels = <<>> =>
            /\ timeout > 0 /\ timeout' = timeout - 1
            /\ openTunnels' = <<1>>
            /\ tunnels'[1].awaited
    /\ TunnelsOpened /\ Probes # {} =>
            /\ tunnels'[1].piping
            /\ ~tunnels'[1].awaited
            /\ Len(openTunnels') = tunnelSocketsPoolSize
    /\ Probes # {} /\ openTunnels' = <<>> =>
            /\ \A id \in TunnelIds : ~tunnels'[id].awaited
            /\ fillTunnelsTimeout' /\ timeout' = 0

\* C15: at boot and at every retry exactly one probe Tunnel is opened; the
\* other Tunnels are opened only once the probe has emitted 'connect', and
\* after a probe that closed without connecting no Tunnel is opened until
\* the retry timer fires.
C15_ProbeFirst == []C15_ProbeIsAlone /\ [][C15_ProbeSteps]_vars

\* After a handshake the probe has emitted 'connect' and the pool has been
\* filled with Tunnels that are still connecting.
C15_Witness ==
    /\ clientSecret # <<>>
    /\ Len(openTunnels) = tunnelSocketsPoolSize
    /\ tunnels[1].piping
    /\ Probes = {}
    /\ \A i \in 2 .. tunnelSocketsPoolSize :
           tunnels[i].remote.connecting /\ tunnels[i].local.connecting

\* The step is onTunnelCloseDebounced: nothing else clears fillTunnelsTimeout.
DebounceRuns == fillTunnelsTimeout /\ ~fillTunnelsTimeout'

\* While a retry is scheduled there is no Tunnel in openTunnels and no
\* debounce timer.
C16_NothingDuringOutage ==
    timeout > 0 => openTunnels = <<>> /\ ~fillTunnelsTimeout

\* The steps of an outage: the debounce that finds openTunnels empty creates
\* no Tunnel and leaves one retry scheduled; while the retry is scheduled
\* the only step that changes the pool is the firing of the retry, which
\* opens exactly the probe; the step in which the probe emits 'connect'
\* fills the pool to its size.
C16_OutageSteps ==
    /\ DebounceRuns /\ openTunnels = <<>> =>
            /\ openTunnels' = <<>>
            /\ \A id \in TunnelIds : tunnels'[id].created => ~tunnels'[id].cleanup
            /\ timeout' = 1
    /\ timeout > 0 /\ (openTunnels' # openTunnels \/ timeout' # timeout) =>
            /\ timeout' = timeout - 1
            /\ openTunnels' = <<1>>
            /\ Probes' = {1}
    /\ Probes # {} /\ tunnels'[1].piping =>
            /\ Probes' = {}
            /\ Len(openTunnels') = tunnelSocketsPoolSize

\* C16: when the debounced re-evaluation finds openTunnels empty the Client
\* does not fill the pool; it schedules one retry, creates no Tunnel before
\* the retry fires, then opens one probe, and refills the pool to its size
\* when the probe connects.
C16_RetryAfterOutage == []C16_NothingDuringOutage /\ [][C16_OutageSteps]_vars

\* All Tunnels have closed, the debounce has run and a retry is scheduled.
C16_Witness == timeout = 1 /\ openTunnels = <<>> /\ ~fillTunnelsTimeout

\* The debounce that finds a Tunnel left in openTunnels fills the pool to
\* exactly its size with Tunnels that start connecting, keeps the Tunnels
\* that were left, and schedules no retry.
C17_DebounceRefills ==
    DebounceRuns /\ openTunnels # <<>> =>
        /\ Len(openTunnels') = tunnelSocketsPoolSize
        /\ \A i \in 1 .. Len(openTunnels) : tunnels'[i] = tunnels[i]
        /\ \A i \in (Len(openTunnels) + 1) .. tunnelSocketsPoolSize :
               tunnels'[i].remote.connecting /\ tunnels'[i].local.connecting
        /\ timeout' = 0

\* C17: every close of a Tunnel that leaves openTunnels leaves the debounce
\* timer pending, and when the timer fires and finds another Tunnel left in
\* openTunnels the Client opens replacements up to exactly the pool size,
\* with no retry timer.
C17_RefillAfterClose ==
    [][/\ C17_DebounceRefills
       /\ Len(openTunnels') < Len(openTunnels) => fillTunnelsTimeout']_vars

\* The pool is full again and its first Tunnel is not the probe that once
\* filled it: that one has closed, and the debounce has replaced it.
C17_Witness ==
    /\ Len(openTunnels) = tunnelSocketsPoolSize
    /\ ~tunnels[1].piping
    /\ ~fillTunnelsTimeout
    /\ timeout = 0

\* The Tunnel is in openTunnels.
InOpenTunnels(id) == \E i \in 1 .. Len(openTunnels) : openTunnels[i] = id

\* openTunnels without the Tunnel, the others in their order.
Without(id) == SelectSeq(openTunnels, LAMBDA t : t # id)

\* What the Client's pool and timers are in state c.
PoolAndTimers(c) == <<c.openTunnels, c.fillTunnelsTimeout, c.timeout>>

\* C18: a Tunnel is in openTunnels once, and as long as its 'close' listener
\* is registered.  Its first close removes it and nothing else and arms the
\* debounce timer; a close of a Tunnel that has left openTunnels, by a
\* call of close or by any event of its sockets, removes nothing and arms
\* no timer, although it emits 'close' again.
C18_RemovedOnce ==
    /\ \A i, j \in 1 .. Len(openTunnels) : openTunnels[i] = openTunnels[j] => i = j
    /\ \A id \in TunnelIds :
          tunnels[id].created =>
              LET first == close(ClientState, id)
                  later == [first EXCEPT !.fillTunnelsTimeout = FALSE]
              IN /\ tunnels[id].cleanup <=> InOpenTunnels(id)
                 /\ first.openTunnels = Without(id)
                 /\ InOpenTunnels(id) =>
                        /\ Len(first.openTunnels) = Len(openTunnels) - 1
                        /\ first.fillTunnelsTimeout
                 /\ ~InOpenTunnels(id) =>
                        PoolAndTimers(first) = PoolAndTimers(ClientState)
                 /\ PoolAndTimers(close(later, id)) = PoolAndTimers(later)
                 /\ \A side \in Sides, event \in SocketEvents :
                        PoolAndTimers(EmitTunnelSocketEvent(later, id, side, event))
                            = PoolAndTimers(later)

\* A Tunnel has closed and left openTunnels, the debounce has run since, and
\* the Tunnel's remote socket can still signal: it waits for the Proxy's
\* reply.
C18_Witness ==
    /\ ~fillTunnelsTimeout
    /\ timeout = 1
    /\ \E id \in TunnelIds :
          /\ tunnels[id].created
          /\ ~InOpenTunnels(id)
          /\ tunnels[id].challenge = "waiting"
          /\ ~tunnels[id].remote.destroyed

\* scheduleReconnect called n times in a row.
RECURSIVE Scheduled(_, _)
Scheduled(c, n) == IF n = 0 THEN c ELSE scheduleReconnect(Scheduled(c, n - 1))

\* The retry timer fires in state c: one pending timer runs tryOpenTunnels.
Retried(c) == tryOpenTunnels([c EXCEPT !.timeout = @ - 1])

\* C19: at most one retry timer is pending; however many times
\* scheduleReconnect is called in a row, exactly one timer is pending
\* afterwards, and once it has fired and run tryOpenTunnels none is left.
C19_OneReconnectTimer ==
    /\ timeout \in {0, 1}
    /\ \A n \in 1 .. MaxRetries :
          /\ Scheduled(ClientState, n).timeout = 1
          /\ Retried(Scheduled(ClientState, n)).timeout = 0

\* A retry is scheduled while Tunnels of earlier attempts still wait for the
\* Proxy's reply.
C19_Witness ==
    /\ timeout = 1
    /\ Cardinality({id \in TunnelIds : tunnels[id].created /\ ~tunnels[id].cleanup}) >= 2

(***************************************************************************)
(* Properties of the construction.                                         *)
(***************************************************************************)
\* The ports the Proxy would run with.
EffectiveOptions == applyOptions(defaultOptions, options)

\* proxyPort equals tunnelPort, as given or once the defaults are applied.
EqualPorts ==
    \/ StrictEquals(options.proxyPort, options.tunnelPort)
    \/ StrictEquals(EffectiveOptions.proxyPort, EffectiveOptions.tunnelPort)

\* C20: when proxyPort equals tunnelPort the constructor throws, and neither
\* server is ever created, started or listening.
C20_EqualPortsFail ==
    EqualPorts =>
        /\ ProxyServer(options).thrown # "none"
        /\ proxyServer = "undefined"
        /\ tunnelServer = "undefined"
        /\ ~ENABLED Listening

\* The Proxy was constructed with tunnelPort 80 and no proxyPort, whose
\* default is 80, and has thrown.
C20_Witness ==
    /\ options.proxyPort = Undefined
    /\ options.tunnelPort = NumberValue(80)
    /\ thrown = "proxyPort cannot be the same as tunnelPort"

\* typeof value !== 'number'; so it is for a value that is missing.
NotANumber(value) == value.typeof # "number"

\* No server has been created or started, and none will listen.
NoListener ==
    /\ proxyServer = "undefined"
    /\ tunnelServer = "undefined"
    /\ ~ENABLED Listening

ClientOptionsSupplied ==
    /\ ~Falsy(clientOptions.proxyHost)
    /\ ~Falsy(clientOptions.tunnelPort)
    /\ ~Falsy(clientOptions.appPort)

\* C22 as claimed: with proxyHost, tunnelPort and appPort supplied the
\* constructor of the Client throws nothing.
C22_ClientIsConstructed == ClientOptionsSupplied => clientThrown = "none"

\* What the user gave for a member of tunnelEncryption.
Given(member) == Get(Get(options, "tunnelEncryption"), member)

\* The value is given and is not the empty string.
NonEmpty(value) == value \notin {Undefined, Null, TextValue("")}

IsPrefix(a, b) == Len(a) <= Len(b) /\ a = SubSeq(b, 1, Len(a))

\* The two ends have the same encryption options.
SameEncryption == relay.proxyEncryption = relay.clientEncryption

\* Nothing is on its way: every socket of the pairing has been read empty.
Drained ==
    /\ relay.requestState = "piped" /\ relay.piping
    /\ relay.request = <<>> /\ relay.tunnel = <<>>
    /\ relay.remote = <<>> /\ relay.local = <<>>

\* C23: with the same encryption options on the Proxy and on the Client,
\* encrypted or raw, what the app has received is the beginning of what the
\* public client has written and what the public client has received is
\* the beginning of what the app has written, byte for byte; and once every
\* socket has been read empty, all of it.
C23_BytesArriveUnchanged ==
    SameEncryption =>
        /\ IsPrefix(relay.toApp, relay.byPublic)
        /\ IsPrefix(relay.toPublic, relay.byApp)
        /\ Drained => relay.toApp = relay.byPublic /\ relay.toPublic = relay.byApp

\* An encrypted pairing after a handshake has carried MaxBytes bytes each
\* way.
C23_Witness ==
    /\ SameEncryption
    /\ canEncryptTunnel(relay.proxyEncryption)
    /\ secret # <<>>
    /\ Drained
    /\ Len(relay.toApp) = MaxBytes
    /\ Len(relay.toPublic) = MaxBytes

\* The handshake of tunnel t fails in this step: its socket emits 'timeout'
\* while the secret is awaited, or the write of EMPTY or INCORRECT is done.
HandshakeFails(t) ==
    \/ /\ handshake[t].state = "listening"
       /\ "timeout" \notin sockets[t].emitted
       /\ "timeout" \in sockets'[t].emitted
    \/ /\ handshake[t].state = "writing"
       /\ handshake[t].callback = "reject"
       /\ handshake'[t].state # "writing"

\* C26: the step in which a tunnel's handshake fails leaves the Proxy
\* running with the tunnel socket ended and both queues as they were.
C26_FailedHandshakeNotFatal ==
    [][\A t \in SocketIds :
          HandshakeFails(t) =>
              /\ ~crashed'
              /\ sockets'[t].writableEnded
              /\ tunnelPool' = tunnelPool
              /\ requestQueue' = requestQueue]_vars

\* The tunnel sockets in tunnelPool.
Pooled == {tunnelPool[i] : i \in 1 .. Len(tunnelPool)}

\* C27: every tunnel socket in tunnelPool has timeout 0 and keep-alive, and
\* none of them emits 'timeout'; both sockets of a Tunnel of the Client have
\* timeout 0 and keep-alive once the Tunnel is accepted.
C27_LongLivedSockets ==
    /\ [](\A t \in Pooled : sockets[t].timeout = "0" /\ sockets[t].keepAlive)
    /\ [][\A t \in Pooled :
            "timeout" \in sockets'[t].emitted => "timeout" \in sockets[t].emitted]_vars
    /\ [](\A id \in TunnelIds :
            tunnels[id].verified =>
                /\ tunnels[id].remote.timeout = "0" /\ tunnels[id].remote.keepAlive
                /\ tunnels[id].local.timeout = "0" /\ tunnels[id].local.keepAlive)

\* A tunnel whose handshake had set challengeTimeout is in tunnelPool.
C27_Witness ==
    /\ secret # <<>>
    /\ tunnelPool # <<>>
    /\ handshake[Head(tunnelPool)].state = "resolved"
    /\ sockets[Head(tunnelPool)].timeout = "0"

\* The last message logged is the given one.
LastLogged(messages, message) ==
    messages # <<>> /\ messages[Len(messages)] = message

\* C28: "App connected" is logged when the first tunnel is accepted and not
\* again until "App disconnected" has been logged.
C28_ConnectedLoggedOnce ==
    [][logged' # logged /\ LastLogged(logged', "App connected")
          => ~LastLogged(logged, "App connected")]_vars

\* The tunnel socket t, the only one in tunnelPool, emits its first terminal
\* event in this step.
LastIdleTunnelDeparts(t) ==
    /\ tunnelPool = <<t>>
    /\ sockets[t].emitted = {}
    /\ sockets'[t].emitted # {}

\* C29: when the last idle tunnel departs "App disconnected" is logged, once;
\* and it is not logged in a step that finds tunnelPool empty.
C29_DisconnectedLoggedOnce ==
    [][/\ \A t \in SocketIds :
            LastIdleTunnelDeparts(t) => logged' = Append(logged, "App disconnected")
       /\ tunnelPool = <<>> => ~(logged' # logged /\ LastLogged(logged', "App disconnected"))]_vars

\* C30: a Tunnel emits 'connect' at most once, in a step that leaves it
\* connected (both sockets open, neither ended, verified); and a Tunnel
\* that is connected has emitted it, whichever of its local socket's
\* 'connect' and its acceptance came first.
C30_ConnectOnceWhenConnected ==
    /\ [](\A id \in TunnelIds :
            /\ tunnels[id].connects <= 1
            /\ tunnels[id].piping <=> tunnels[id].connects = 1
            /\ connected(tunnels[id]) => tunnels[id].connects = 1)
    /\ [][\A id \in TunnelIds :
            tunnels'[id].connects > tunnels[id].connects =>
                /\ tunnels[id].connects = 0
                /\ connected(tunnels'[id])]_vars

\* A Tunnel that had to send a secret has emitted 'connect' and is
\* connected.
C30_Witness ==
    /\ clientSecret # <<>>
    /\ \E id \in TunnelIds :
          /\ tunnels[id].connects = 1
          /\ connected(tunnels[id])

\* killSocket has acted on the socket: it is closed, or ended and either
\* destroyed or due to be by the 500 ms timer.
Killed(socket) ==
    \/ socket.closed
    \/ socket.writableEnded /\ (socket.destroyed \/ socket.DESTRUCTION_TIMEOUT)

\* The Client after a terminal event of a socket of the Tunnel: an 'error',
\* 'end' or 'close' the network can cause, or the 'timeout' of its idle
\* timer.
AfterSocketEvents(id) ==
    {EmitTunnelSocketEvent(ClientState, id, side, event) :
        <<side, event>> \in {se \in Sides \X SocketEvents :
            \/ CanEmitTunnel(id, se[1], se[2])
            \/ /\ se[2] = "timeout"
               /\ ~SocketOf(ClientState, id, se[1]).destroyed
               /\ SocketOf(ClientState, id, se[1]).timeout \notin {"undefined", "0"}
               /\ "timeout" \notin SocketOf(ClientState, id, se[1]).emitted}}

\* The Tunnel has been closed: both sockets killed and 'close' emitted, so
\* that it has left openTunnels.
TunnelClosed(c, id) ==
    /\ ~c.crashed
    /\ Killed(c.tunnels[id].remote)
    /\ Killed(c.tunnels[id].local)
    /\ ~c.tunnels[id].cleanup
    /\ \A i \in 1 .. Len(c.openTunnels) : c.openTunnels[i] # id

\* C31: whatever the state of a Tunnel that has not closed (connecting,
\* waiting for the Proxy's reply, waiting for the app, or piping), the first
\* 'error', 'end', 'timeout' or 'close' of either socket closes it: both
\* sockets are killed and the Tunnel emits 'close'.
C31_FirstEventClosesTunnel ==
    \A id \in TunnelIds :
        ~clientCrashed /\ InOpenTunnels(id) =>
            \A c \in AfterSocketEvents(id) : TunnelClosed(c, id)

\* A Tunnel has closed, the debounce timer is pending, and another Tunnel
\* is piping, its sockets open to events.
C31_Witness ==
    /\ fillTunnelsTimeout
    /\ \E id \in TunnelIds :
          /\ InOpenTunnels(id)
          /\ tunnels[id].piping
          /\ AfterSocketEvents(id) # {}

\* The Tunnel waits for the Proxy's reply to its secret.
AwaitsReply(id) ==
    /\ ~clientCrashed
    /\ InOpenTunnels(id)
    /\ tunnels[id].challenge = "waiting"
    /\ ~tunnels[id].remote.destroyed

\* C32: when the Proxy's reply to the secret is not the byte VERIFIED (it is
\* another byte, or the stream ends without a byte, or challengeTimeout
\* passes), the Client closes the Tunnel, which leaves openTunnels.
C32_RejectedReplyClosesTunnel ==
    \A id \in TunnelIds :
        AwaitsReply(id) =>
            /\ \A reply \in Replies \ {<<CHALLENGE.VERIFIED>>} :
                  TunnelClosed(onSenderReadable(ClientState, id, reply), id)
            /\ "timeout" \notin tunnels[id].remote.emitted =>
                  TunnelClosed(EmitTunnelSocketEvent(ClientState, id, "remote", "timeout"), id)

\* C33: an 'error' on a socket of a Tunnel, whenever it comes, closes the
\* Tunnel, and no listener of the Client throws: the Client never crashes.
C33_NoExceptionEscapes ==
    /\ ~clientCrashed
    /\ \A id \in TunnelIds, side \in Sides :
          CanEmitTunnel(id, side, "error") =>
              LET c == EmitTunnelSocketEvent(ClientState, id, side, "error")
              IN /\ ~c.crashed
                 /\ Killed(c.tunnels[id].remote)
                 /\ Killed(c.tunnels[id].local)
                 /\ ~c.tunnels[id].cleanup

\* C34: one debounce timer at most.  While it is pending, the close of a
\* Tunnel only takes the Tunnel out of openTunnels: the timer stays the one
\* pending, nothing is created and no reconnect is scheduled.  The timer's
\* one run of onTunnelCloseDebounced clears it and decides by the length
\* openTunnels has then: the reconnect when it is empty, the fill otherwise.
C34_ClosesCoalesced ==
    ~clientCrashed /\ fillTunnelsTimeout =>
        /\ \A id \in TunnelIds :
              InOpenTunnels(id) =>
                  \A c \in AfterSocketEvents(id) :
                      /\ c.fillTunnelsTimeout
                      /\ c.timeout = timeout
                      /\ Len(c.openTunnels) = Len(openTunnels) - 1
                      /\ \A other \in TunnelIds : c.tunnels[other].created = tunnels[other].created
        /\ LET c == onTunnelCloseDebounced(ClientState)
           IN /\ ~c.fillTunnelsTimeout
              /\ IF Len(openTunnels) = 0
                 THEN c.timeout = 1 /\ c.openTunnels = <<>>
                 ELSE /\ c.timeout = timeout
                      /\ c.overflow \/ Len(c.openTunnels) >= tunnelSocketsPoolSize

\* The timer is pending and another Tunnel of the pool can close.
C34_Witness ==
    /\ ~clientCrashed
    /\ fillTunnelsTimeout
    /\ Len(openTunnels) = 1
    /\ AfterSocketEvents(openTunnels[1]) # {}

\* C35: every request socket carries the idle timeout requestTimeout, paired
\* or queued, and a paired request whose idle timeout passes is terminated:
\* its 'timeout' listener kills it (and the 'close' that follows kills its
\* tunnel).  Only tunnel sockets get the timeout 0.
C35_IdleRequestTerminated ==
    ~crashed =>
        \A s \in SocketIds :
            sockets[s].type = "request" =>
                /\ sockets[s].timeout = requestTimeout
                /\ (/\ IsPiped(ProxyState, s)
                    /\ ~sockets[s].destroyed
                    /\ "timeout" \notin sockets[s].emitted)
                   => LET st == EmitSocketEvent(ProxyState, s, "timeout")
                      IN ~st.crashed /\ Killed(st.sockets[s])

\* A socket on which no terminal event was emitted and that nothing has
\* ended or destroyed.
Live(socket) ==
    /\ socket.emitted = {}
    /\ ~socket.closed
    /\ ~socket.destroyed
    /\ ~socket.writableEnded

\* C36: every tunnel socket in tunnelPool is live: acceptTunnel pushes no
\* socket a terminal event has reached, and the listeners of a pooled
\* socket's terminal events take it out of tunnelPool.
C36_PoolHoldsLiveSockets ==
    /\ \A i \in 1 .. Len(tunnelPool) : Live(sockets[tunnelPool[i]])
    /\ ~crashed =>
          \A t \in SocketIds, event \in {"error", "end", "close"} :
              /\ CanEmit(t, event)
              /\ sockets[t].type = "tunnel"
              => LET st == IF event = "end"
                           THEN ReceiveEnd(ProxyState, t)
                           ELSE EmitSocketEvent(ProxyState, t, event)
                 IN \A i \in 1 .. Len(st.tunnelPool) : st.tunnelPool[i] # t

\* What can still make a Tunnel try to emit 'connect': its local socket
\* connects, its remote socket connects, the Proxy accepts the secret.
AfterConnectAttempts(c, id) ==
    {tryEmitConnect([c EXCEPT !.tunnels[id].local.connecting = FALSE], id),
     onRemoteConnect([c EXCEPT !.tunnels[id].remote.connecting = FALSE], id),
     onSenderReadable(c, id, <<CHALLENGE.VERIFIED>>),
     TunnelAcceptTunnel(c, id)}

\* None of them emits 'connect' or runs pipeSockets.
NoConnect(c, id) ==
    \A d \in AfterConnectAttempts(c, id) :
        /\ d.tunnels[id].connects = c.tunnels[id].connects
        /\ d.tunnels[id].piping = c.tunnels[id].piping

\* C37: a Tunnel that has run close emits no 'connect' and runs no
\* pipeSockets afterwards, whether its local socket connects or its
\* handshake completes after the close.
C37_NoConnectAfterClose ==
    ~clientCrashed =>
        \A id \in TunnelIds :
            /\ tunnels[id].created /\ ~tunnels[id].cleanup => NoConnect(ClientState, id)
            /\ InOpenTunnels(id) =>
                  \A c \in AfterSocketEvents(id) : NoConnect(c, id)

\* A Tunnel was closed while it waits for the Proxy's reply, which can
\* still arrive, and another was closed by its first event.
C37_Witness ==
    /\ ~clientCrashed
    /\ \E id \in TunnelIds :
          /\ tunnels[id].created
          /\ ~tunnels[id].cleanup
          /\ tunnels[id].challenge = "waiting"
          /\ ~tunnels[id].remote.destroyed
    /\ \E id \in TunnelIds :
          /\ InOpenTunnels(id)
          /\ tunnels[id].local.connecting
          /\ AfterSocketEvents(id) # {}

\* Something is still to run that refills openTunnels or probes again: the
\* debounce timer, the reconnect timer, or the outcome of the probe that
\* tryOpenTunnels awaits.
RefillPending ==
    \/ fillTunnelsTimeout
    \/ timeout > 0
    \/ \E id \in TunnelIds : InOpenTunnels(id) /\ tunnels[id].awaited

\* C38: the Client never stalls below its target: whenever openTunnels holds
\* fewer Tunnels than tunnelSocketsPoolSize, the debounce timer or the
\* reconnect timer is pending or the probe's outcome is awaited; and the
\* awaited probe, while the Client runs, has an outcome still to come.
C38_NeverStallsBelowTarget ==
    /\ Len(openTunnels) < tunnelSocketsPoolSize => RefillPending
    /\ \A id \in TunnelIds :
          ~clientCrashed /\ tunnels[id].awaited =>
              \/ tunnels[id].remote.connecting
              \/ tunnels[id].local.connecting
              \/ tunnels[id].challenge = "waiting"
              \/ AfterSocketEvents(id) # {}

\* All Tunnels are down and the debounce has run: only the reconnect timer
\* is left to bring the pool back.
C38_Witness ==
    /\ ~clientCrashed
    /\ Len(openTunnels) = 0
    /\ ~fillTunnelsTimeout
    /\ timeout > 0

\* C39: onRequestClosed and onTunnelClosed, run by an event of a socket, are
\* called with that socket, and return without throwing.
C39_ListenerReceivesSocket ==
    ~crashed =>
        \A s \in SocketIds, event \in SocketEvents :
            \/ CanEmit(s, event)
            \/ /\ event = "timeout"
               /\ sockets[s].type # "free"
               /\ ~sockets[s].destroyed
               /\ sockets[s].timeout \notin {"undefined", "0"}
               /\ "timeout" \notin sockets[s].emitted
            => /\ ListenerArg(s, event) = [kind |-> "socket", id |-> s]
               /\ ~EmitSocketEvent(ProxyState, s, event).crashed

(***************************************************************************)
(* Properties of the listeners.                                            *)
(***************************************************************************)
\* C25: a listener that was closed after its 'error' or 'close' is
\* eventually listening again.
C25_ListensAgain ==
    /\ (proxyServer = "closed") ~> (proxyServer = "listening")
    /\ (tunnelServer = "closed") ~> (tunnelServer = "listening")

\* C40: one failure, one relisten: when the 'close' that follows a restart's
\* close() is emitted, its listeners start the server once and ask for no
\* further 'close' of that listener, so no second restart follows.
C40_OneRelistenPerFailure ==
    ticks # <<>> /\ Head(ticks).event = "close" =>
        LET listener == Head(ticks).listener
            rest == [Listeners EXCEPT !.ticks = Tail(@)]
            p == IF listener = "proxy"
                 THEN onProxyServerClose(rest)
                 ELSE onTunnelServerClose(rest)
        IN /\ \A i \in 1 .. Len(p.ticks) : p.ticks[i] # Tick(listener, "close")
           /\ \E i \in 1 .. Len(p.ticks) : p.ticks[i] = Tick(listener, "listening")

====
